---------------------------- MODULE Spec2Model ----------------------------
(***************************************************************************)
(* Model of src/tools/roofing_analysis_engine.py: the roof geometry and    *)
(* estimation core (geometry helpers, complexity classifier, edge          *)
(* synthesis, edge aggregation, bill of materials, waste table, RAS yield) *)
(* the analyze() pipeline that chains them, and the batch loop of main().  *)
(*                                                                         *)
(* Number representation.                                                  *)
(*   - The decimal arithmetic of the bill of materials, the waste table    *)
(*     and the RAS yield runs on Python floats: it is modelled bit-exactly *)
(*     (section PYTHON FLOATS), since a product such as 1000 * 1.14 is not *)
(*     the decimal 1140 and math.ceil / round see the difference.          *)
(*   - sqrt, cos and tan are irrational: inside the pipeline, where every  *)
(*     result is rounded before it is stored, the geometry is computed in  *)
(*     fixed point, each quantity in the unit its comment names,           *)
(*       degrees      in 1/U degree    (26.6 deg  = 266000)                *)
(*       areas, feet  in 1/U                                               *)
(*       factors      in 1/F           (1.118034 = 1118034)                *)
(*     and products that do not fit 32 bits go through MulDivQR.           *)
(*   - A direct call of true_area_from_footprint, hip_valley_factor or     *)
(*     rake_factor returns an unrounded float: it is computed bit-exactly  *)
(*     too, from the tabulated values of math.tan and math.cos (section    *)
(*     GEOMETRY HELPERS, on floats).                                       *)
(*   - Stored fields are the rounded values the code stores: integers, or  *)
(*     integers in the unit of the last decimal kept (1/10 square, cents). *)
(*   round() is Python's round-half-to-even.                               *)
(***************************************************************************)
EXTENDS Integers, Sequences, FiniteSets, TLC

VARIABLES
    pc,                    \* position of the running call / pipeline
    fault,                 \* exception propagated to the caller ("none" if none)
    raw_segments,          \* solar_data["solarPotential"]["roofSegmentStats"]
    shingle_type,          \* shingle_type argument
    segments,              \* List[RoofSegment]
    total_footprint_sqft,  \* analyze: sum of footprint_area_sqft
    total_true_area_sqft,  \* analyze: sum of true_area_sqft
    edges,                 \* List[EdgeMeasurement]
    edge_summary,          \* EdgeSummary
    materials,             \* MaterialEstimate
    waste_table,           \* List[Dict] of generate_waste_table
    ras_yield,             \* RASYieldAnalysis
    cargs,                 \* arguments of a direct call (classify_complexity,
                           \* the geometry helpers, main in batch mode)
    cresult                \* its result

vars == <<pc, fault, raw_segments, shingle_type, segments, total_footprint_sqft,
          total_true_area_sqft, edges, edge_summary, materials, waste_table,
          ras_yield, cargs, cresult>>

-----------------------------------------------------------------------------
(* Fixed-point scales and arithmetic helpers *)

U == 100 * 100            \* degrees, areas and lengths: 4 decimals
F == 1000 * 1000          \* factors and tangents: 6 decimals
T == 10000 * 10000        \* sine and cosine inside the series: 8 decimals
H == 1000 * 100           \* radicand of hip_valley_factor: 5 decimals

\* Python None
None == [none |-> TRUE]

Min(a, b) == IF a <= b THEN a ELSE b

Max(a, b) == IF a >= b THEN a ELSE b

\* round(a / b), Python 3: ties go to the even integer (a >= 0, b > 0)
RoundDiv(a, b) ==
    LET q == a \div b
        r == a % b
    IN  IF 2 * r < b THEN q
        ELSE IF 2 * r > b THEN q + 1
        ELSE IF q % 2 = 0 THEN q ELSE q + 1

\* <<q, r>> with a * b = q * c + r and 0 <= r < c, for 0 <= a < c < 2^27 and
\* b >= 0, three bits of b at a time so that no intermediate exceeds 32 bits
RECURSIVE MulDivRec(_, _, _)
MulDivRec(a, b, c) ==
    IF b = 0 THEN <<0, 0>>
    ELSE LET h == MulDivRec(a, b \div 8, c)
             t == 8 * h[2] + a * (b % 8)
         IN  <<8 * h[1] + (t \div c), t % c>>

\* <<q, r>> with a * b = q * c + r and 0 <= r < c, for a, b >= 0, 0 < c < 2^27
MulDivQR(a, b, c) ==
    IF a = 0 \/ b = 0 \/ c = 0 THEN <<0, 0>>
    ELSE IF a < 46341 /\ b < 46341 THEN <<(a * b) \div c, (a * b) % c>>
    ELSE LET h == MulDivRec(a % c, b, c)
         IN  <<h[1] + (a \div c) * b, h[2]>>

\* floor(a * b / c)
MulDiv(a, b, c) == MulDivQR(a, b, c)[1]

\* a * b / c rounded to the nearest integer (the float result, then scaled)
MulDivNear(a, b, c) ==
    LET h == MulDivQR(a, b, c)
    IN  IF 2 * h[2] >= c THEN h[1] + 1 ELSE h[1]

\* math.sqrt on fixed-point numbers of scale sc, floor(sqrt(v * sc)): Newton's
\* iteration from above, w' = (w + v*sc/w) / 2, until it stops decreasing
RECURSIVE SqrtNewton(_, _, _)
SqrtNewton(v, sc, w) ==
    LET next == (w + MulDiv(v, sc, w)) \div 2
    IN  IF next >= w THEN w ELSE SqrtNewton(v, sc, next)

\* (the start is above the root: sqrt(v*sc) <= max(v, sc), and < 2^27 for sc <= F)
SqrtFix(v, sc) ==
    IF v = 0 THEN 0 ELSE SqrtNewton(v, sc, Min(Max(v, sc), 134217727))

\* math.radians: 1/U degrees to 1/T radians (pi/180 = 0.01745329252)
Radians(deg) == MulDiv(1745329252, deg, 10000000)

\* Alternating Taylor series term - term' + term'' - ... on 1/T radians,
\* where the term after t (of order k) is t * x^2 / ((k+1)(k+2))
RECURSIVE TrigSeries(_, _, _)
TrigSeries(x2, k, term) ==
    IF term = 0 THEN 0
    ELSE term - TrigSeries(x2, k + 2, MulDiv(term, x2, T) \div ((k + 1) * (k + 2)))

\* math.cos(math.radians(deg)), 1/T, for 0 <= deg <= 90 degrees
Cos(deg) ==
    LET x == Radians(deg)
    IN  TrigSeries(MulDiv(x, x, T), 0, T)

\* math.sin(math.radians(deg)), 1/T, for 0 <= deg <= 90 degrees
Sin(deg) ==
    LET x == Radians(deg)
    IN  TrigSeries(MulDiv(x, x, T), 1, x)

\* math.tan(math.radians(deg)), 1/F, for 0 <= deg < 90 degrees
Tan(deg) == MulDivNear(Sin(deg), F, Cos(deg))

-----------------------------------------------------------------------------
(* PYTHON FLOATS *)
(* A float is IEEE-754 binary64: every operation returns the exact result   *)
(* rounded to 53 significant bits, ties to even.  Here a float x >= 0 is    *)
(* [m |-> limbs, e |-> exponent], the number m * 2^e, where m is a natural  *)
(* number in base B, least significant limb first, no leading zero limb.    *)

LimbBits == 2 * 7
B == 2 ^ LimbBits

RECURSIVE BigNorm(_)
BigNorm(a) ==
    IF a = <<>> THEN <<>>
    ELSE IF a[Len(a)] = 0 THEN BigNorm(SubSeq(a, 1, Len(a) - 1))
    ELSE a

\* 0 <= n < 2^31
BigFromInt(n) == BigNorm(<<n % B, (n \div B) % B, n \div (B * B)>>)

RECURSIVE BigToInt(_)
BigToInt(a) == IF a = <<>> THEN 0 ELSE Head(a) + B * BigToInt(Tail(a))

RECURSIVE BigAddC(_, _, _)
BigAddC(a, b, c) ==
    IF a = <<>> /\ b = <<>> THEN (IF c = 0 THEN <<>> ELSE <<c>>)
    ELSE LET x == (IF a = <<>> THEN 0 ELSE Head(a))
                  + (IF b = <<>> THEN 0 ELSE Head(b)) + c
         IN  <<x % B>> \o BigAddC(IF a = <<>> THEN <<>> ELSE Tail(a),
                                  IF b = <<>> THEN <<>> ELSE Tail(b), x \div B)

BigAdd(a, b) == BigAddC(a, b, 0)

RECURSIVE BigSubB(_, _, _)
BigSubB(a, b, borrow) ==
    IF a = <<>> THEN <<>>
    ELSE LET x == Head(a) - (IF b = <<>> THEN 0 ELSE Head(b)) - borrow
         IN  <<x % B>> \o BigSubB(Tail(a), IF b = <<>> THEN <<>> ELSE Tail(b),
                                  IF x < 0 THEN 1 ELSE 0)

\* a - b, for a >= b
BigSub(a, b) == BigNorm(BigSubB(a, b, 0))

RECURSIVE BigCmpTop(_, _, _)
BigCmpTop(a, b, i) ==
    IF i = 0 THEN 0
    ELSE IF a[i] # b[i] THEN (IF a[i] < b[i] THEN -1 ELSE 1)
    ELSE BigCmpTop(a, b, i - 1)

\* -1, 0 or 1 as a < b, a = b or a > b
BigCmp(a, b) ==
    IF Len(a) # Len(b) THEN (IF Len(a) < Len(b) THEN -1 ELSE 1)
    ELSE BigCmpTop(a, b, Len(a))

RECURSIVE BigMulSmallC(_, _, _)
BigMulSmallC(a, k, c) ==
    IF a = <<>> THEN (IF c = 0 THEN <<>> ELSE <<c>>)
    ELSE LET x == Head(a) * k + c
         IN  <<x % B>> \o BigMulSmallC(Tail(a), k, x \div B)

\* a * k, for 0 <= k < B
BigMulSmall(a, k) == BigNorm(BigMulSmallC(a, k, 0))

RECURSIVE BigMul(_, _)
BigMul(a, b) ==
    IF a = <<>> \/ b = <<>> THEN <<>>
    ELSE LET t == BigMul(a, Tail(b))
         IN  BigAdd(BigMulSmall(a, Head(b)), IF t = <<>> THEN <<>> ELSE <<0>> \o t)

\* a * 2^n
BigShl(a, n) ==
    IF a = <<>> THEN <<>>
    ELSE [i \in 1..(n \div LimbBits) |-> 0] \o BigMulSmall(a, 2 ^ (n % LimbBits))

\* <<a \div d, a % d>> for 0 < d < B, the quotient with leading zero limbs
RECURSIVE BigDivSmallR(_, _)
BigDivSmallR(a, d) ==
    IF a = <<>> THEN << <<>>, 0 >>
    ELSE LET h   == BigDivSmallR(Tail(a), d)
             cur == h[2] * B + Head(a)
         IN  << <<cur \div d>> \o h[1], cur % d >>

\* a \div 2^n
BigShr(a, n) ==
    IF n \div LimbBits >= Len(a) THEN <<>>
    ELSE BigNorm(BigDivSmallR(SubSeq(a, (n \div LimbBits) + 1, Len(a)),
                              2 ^ (n % LimbBits))[1])

\* the largest q in lo..hi with q * d <= r
RECURSIVE DigitOf(_, _, _, _)
DigitOf(r, d, lo, hi) ==
    IF lo = hi THEN lo
    ELSE LET mid == (lo + hi + 1) \div 2
         IN  IF BigCmp(BigMulSmall(d, mid), r) <= 0
             THEN DigitOf(r, d, mid, hi)
             ELSE DigitOf(r, d, lo, mid - 1)

\* limb i of a, 0 above its top limb
Limb(a, i) == IF i <= Len(a) THEN a[i] ELSE 0

\* for r < d * B and a top limb of d of B/2 or more, r \div d is this
\* estimate from the top limbs, or 1 or 2 less
DigitEstimate(r, d) ==
    Min(B - 1, (Limb(r, Len(d) + 1) * B + Limb(r, Len(d))) \div d[Len(d)])

\* the long division of a by d, from the top limb down: the limbs above a[i]
\* gave the quotient limbs quot and the remainder rem
RECURSIVE BigDivModLoop(_, _, _, _, _)

\* one step: q is the next quotient limb, cur the remainder with a[i]
BigDivModStep(a, d, i, quot, cur, q) ==
    BigDivModLoop(a, d, i - 1, <<q>> \o quot, BigSub(cur, BigMulSmall(d, q)))

BigDivModLimb(a, d, i, quot, cur) ==
    IF BigCmp(cur, d) < 0 THEN BigDivModLoop(a, d, i - 1, <<0>> \o quot, cur)
    ELSE BigDivModStep(a, d, i, quot, cur,
             DigitOf(cur, d, Max(1, DigitEstimate(cur, d) - 2), DigitEstimate(cur, d)))

BigDivModLoop(a, d, i, quot, rem) ==
    IF i = 0 THEN <<quot, rem>>
    ELSE BigDivModLimb(a, d, i, quot, BigNorm(<<a[i]>> \o rem))

\* <<a \div d, a % d>> for Len(a) >= Len(d) > 1 and a top limb of d of B/2 or
\* more, the quotient with leading zero limbs
BigDivModR(a, d) ==
    BigDivModLoop(a, d, Len(a) - Len(d) + 1, <<>>,
                  SubSeq(a, Len(a) - Len(d) + 2, Len(a)))

\* <<quotient, TRUE iff the remainder is not zero>> of a division result h
StickyOf(h, zero) == <<BigNorm(h[1]), h[2] # zero>>

RECURSIVE SmallBits(_)
SmallBits(x) == IF x = 0 THEN 0 ELSE 1 + SmallBits(x \div 2)

\* the left shift that brings the top limb of d to B/2 or more
NormShift(d) == LimbBits - SmallBits(d[Len(d)])

\* <<a \div d, TRUE iff d does not divide a>>, for d > 0
BigDivSticky(a, d) ==
    IF Len(d) = 1 THEN StickyOf(BigDivSmallR(a, d[1]), 0)
    ELSE IF Len(a) < Len(d) THEN << <<>>, a # <<>> >>
    ELSE StickyOf(BigDivModR(BigShl(a, NormShift(d)), BigShl(d, NormShift(d))), <<>>)

\* the number of significant bits of a
BitLen(a) ==
    IF a = <<>> THEN 0 ELSE LimbBits * (Len(a) - 1) + SmallBits(a[Len(a)])

\* TRUE iff the low t bits of a are all 0
LowZero(a, t) ==
    /\ \A i \in 1..Min(t \div LimbBits, Len(a)) : a[i] = 0
    /\ \/ t % LimbBits = 0
       \/ t \div LimbBits >= Len(a)
       \/ a[(t \div LimbBits) + 1] % (2 ^ (t % LimbBits)) = 0

\* ShrHalf(a, s) given p = a \div 2^(s-1)
ShrHalfOf(a, s, p) ==
    << BigShr(p, 1),
       IF p = <<>> \/ p[1] % 2 = 0 THEN -1
       ELSE IF LowZero(a, s - 1) THEN 0 ELSE 1 >>

\* <<a \div 2^s, c>> for s > 0, with c = -1, 0 or 1 as the low s bits of a
\* are below, at or above 2^(s-1)
ShrHalf(a, s) == ShrHalfOf(a, s, BigShr(a, s - 1))

\* TRUE iff half-to-even rounding of h = ShrHalf(a, s) goes up
RoundsUp(h) == h[2] > 0 \/ (h[2] = 0 /\ h[1] # <<>> /\ h[1][1] % 2 = 1)

\* h = ShrHalf(a, s) rounded half-to-even: the nearest natural to a / 2^s
RoundedHalf(h) == IF RoundsUp(h) THEN BigAdd(h[1], <<1>>) ELSE h[1]

\* the exact number x rounded to its bits above the lowest s
RoundShift(x, s) ==
    IF s <= 0 THEN x ELSE [m |-> RoundedHalf(ShrHalf(x.m, s)), e |-> x.e + s]

\* the exact number x rounded to a float
Round53(x) == RoundShift(x, BitLen(x.m) - 53)

\* float(n) for an int 0 <= n < 2^31
FInt(n) == [m |-> BigFromInt(n), e |-> 0]

\* the float n / 2
FHalves(n) == [m |-> BigFromInt(n), e |-> -1]

\* x * y
FMul(x, y) ==
    IF x.m = <<>> \/ y.m = <<>> THEN [m |-> <<>>, e |-> 0]
    ELSE Round53([m |-> BigMul(x.m, y.m), e |-> x.e + y.e])

\* x + y
FAdd(x, y) ==
    IF x.m = <<>> THEN y
    ELSE IF y.m = <<>> THEN x
    ELSE LET e == Min(x.e, y.e)
         IN  Round53([m |-> BigAdd(BigShl(x.m, x.e - e), BigShl(y.m, y.e - e)),
                      e |-> e])

\* x / y, y # 0: the quotient to 57 or more bits, the last one sticky; a
\* division by a power of two is exact
FQuot(h, e) ==
    Round53([m |-> BigAdd(BigShl(h[1], 1), IF h[2] THEN <<1>> ELSE <<>>),
             e |-> e])

FDiv(x, y) ==
    IF x.m = <<>> THEN x
    ELSE IF y.m = <<1>> THEN [m |-> x.m, e |-> x.e - y.e]
    ELSE LET k == Max(0, 56 + BitLen(y.m) - BitLen(x.m))
         IN  FQuot(BigDivSticky(BigShl(x.m, k), y.m), x.e - y.e - k - 1)

\* floor(sqrt(n)) by Newton's iteration from above: x is above the root and
\* y = (x + n \div x) \div 2 the next iterate
RECURSIVE BigSqrtNewton(_, _, _)
BigSqrtNewton(n, x, y) ==
    IF BigCmp(y, x) >= 0 THEN x
    ELSE BigSqrtNewton(n, y, BigShr(BigAdd(y, BigDivSticky(n, y)[1]), 1))

\* floor(sqrt(n)) for n > 0; the start 2^(bits/2 + 1) is above the root
BigSqrtFrom(n, x) == BigSqrtNewton(n, x, BigShr(BigAdd(x, BigDivSticky(n, x)[1]), 1))

BigSqrt(n) == BigSqrtFrom(n, BigShl(<<1>>, BitLen(n) \div 2 + 1))

\* math.sqrt(x), from the root s of the mantissa scaled to 110 bits or more
\* (e the even exponent of the scaled mantissa n): the bit below s is sticky
FRoot(n, s, e) ==
    Round53([m |-> BigAdd(BigShl(s, 1), IF BigMul(s, s) = n THEN <<>> ELSE <<1>>),
             e |-> e \div 2 - 1])

FSqrtOf(n, e) == FRoot(n, BigSqrt(n), e)

FSqrt(x) ==
    IF x.m = <<>> THEN x
    ELSE FSqrtOf(BigShl(x.m, 112 + (x.e % 2)), x.e - 112 - (x.e % 2))

\* the float literal written p/q in decimal, e.g. 1.05 = FLit(105, 100)
FLit(p, q) == FDiv(FInt(p), FInt(q))

\* x > y
FGt(x, y) ==
    LET e == Min(x.e, y.e)
    IN  BigCmp(BigShl(x.m, x.e - e), BigShl(y.m, y.e - e)) > 0

\* x = 0
FIsZero(x) == x.m = <<>>

\* math.ceil(x), an int
FCeil(x) ==
    IF x.e >= 0 THEN BigToInt(BigShl(x.m, x.e))
    ELSE BigToInt(BigShr(x.m, -x.e)) + (IF LowZero(x.m, -x.e) THEN 0 ELSE 1)

\* round(x), an int: ties go to the even integer
FRound(x) ==
    IF x.e >= 0 THEN BigToInt(BigShl(x.m, x.e))
    ELSE BigToInt(RoundedHalf(ShrHalf(x.m, -x.e)))

\* the float k / 10, and the k of a float that has one decimal
Tenths(k) == FDiv(FInt(k), FInt(10))

InTenths(x) == FRound(FMul(x, FInt(10)))

\* the float c / 100, and the c of a float that has two decimals
Dollars(c) == FDiv(FInt(c), FInt(100))

InCents(x) == FRound(FMul(x, FInt(100)))

-----------------------------------------------------------------------------
(* CONSTANTS of the source *)

\* WASTE_FACTORS: (waste_pct, factor in 1/100, description)
WASTE_FACTORS ==
    << <<5,  105, "Minimal waste (simple gable)">>,
       <<10, 110, "Standard waste (moderate complexity)">>,
       <<15, 115, "Above average (hips/valleys)">>,
       <<20, 120, "High waste (complex/cut-up roof)">> >>

\* PRICING, in cents: the float 42.00 is Dollars(4200)
PRICING ==
    [architectural_bundle  |-> 4200,
     tab3_bundle           |-> 3200,
     underlayment_roll     |-> 8500,
     ice_shield_roll       |-> 12500,
     starter_bundle        |-> 3500,
     ridge_cap_bundle      |-> 5500,
     drip_edge_piece       |-> 850,
     valley_flashing_piece |-> 2200,
     nail_box_30lb         |-> 6500,
     ridge_vent_piece      |-> 1800]

\* the float literals 1.05 and 1.5 of compute_material_estimate
GROSS_LINEAR_FACTOR == FLit(105, 100)

NAIL_LBS_PER_SQUARE == FLit(15, 10)

-----------------------------------------------------------------------------
(* GEOMETRY HELPERS *)

dirs == <<"N", "NNE", "NE", "ENE", "E", "ESE", "SE", "SSE",
          "S", "SSW", "SW", "WSW", "W", "WNW", "NW", "NNW">>

\* degrees_to_cardinal(deg): deg in 1/U degrees; 22.5 degrees = 225000
degrees_to_cardinal(deg) ==
    LET d     == ((deg % (360 * U)) + 360 * U) % (360 * U)
        index == RoundDiv(d, 225000) % 16
    IN  dirs[index + 1]

\* str() of the float n/10, as the f-string prints it ("8.0", "6.7")
FloatTenthsStr(n) == ToString(n \div 10) \o "." \o ToString(n % 10)

\* pitch_to_ratio(degrees): the string "X:12"
pitch_to_ratio(degrees) ==
    IF degrees <= 0 \/ degrees >= 90 * U THEN "0:12"
    ELSE LET rise == 12 * Tan(degrees)            \* 1/F
         IN  FloatTenthsStr(RoundDiv(rise * 10, F)) \o ":12"

\* true_area_from_footprint(footprint_sqft, pitch_degrees): area in 1/U
true_area_from_footprint(footprint_sqft, pitch_degrees) ==
    IF pitch_degrees <= 0 \/ pitch_degrees >= 90 * U THEN footprint_sqft
    ELSE LET cos_angle == Cos(pitch_degrees)
         IN  IF cos_angle <= 0 THEN footprint_sqft
             ELSE MulDivNear(footprint_sqft, T, cos_angle)

\* hip_valley_factor(pitch_degrees), 1/F, for 0 <= pitch < 90 degrees:
\* sqrt(2 * rise^2 + 288) / (12 * sqrt(2)), no guard on the pitch
hip_valley_factor(pitch_degrees) ==
    LET rise  == 12 * Tan(pitch_degrees)                 \* 1/F
        rise2 == MulDivNear(rise, rise, F * (F \div H))  \* 1/H
        num   == SqrtFix(2 * rise2 + 288 * H, H)         \* 1/H
        den   == 12 * SqrtFix(2 * F, F)                  \* 1/F
    IN  MulDivNear(num * (F \div H), F, den)

\* Faulty variant of rake_factor: the cosine itself instead of its inverse
rake_factor_cosine(pitch_degrees) ==
    IF pitch_degrees <= 0 \/ pitch_degrees >= 90 * U THEN F
    ELSE Cos(pitch_degrees) \div (T \div F)

\* rake_factor(pitch_degrees), 1/F
rake_factor(pitch_degrees) ==
    IF pitch_degrees <= 0 \/ pitch_degrees >= 90 * U THEN F
    ELSE MulDivNear(F, T, Cos(pitch_degrees))

-----------------------------------------------------------------------------
(* GEOMETRY HELPERS, on floats *)
(* A direct call of true_area_from_footprint, hip_valley_factor or          *)
(* rake_factor returns a float, and whether the result is above, below or   *)
(* equal to its argument is decided in the last bit.  For the pitches of    *)
(* the direct calls (in 1/PU degree) the values math.tan and math.cos return *)
(* are tabulated and the rest of each expression is computed bit-exactly.   *)

PU == 10000 * 1000        \* pitch of a direct call: 7 decimals

\* the float (hi * 2^28 + lo) * 2^e
Double(hi, lo, e) == [m |-> BigAdd(BigShl(BigFromInt(hi), 28), BigFromInt(lo)), e |-> e]

\* abs(math.tan(math.radians(p / PU))): tan is odd, the sign is that of p
math_tan(p) ==
    CASE p = -10 * PU -> Double(23666206, 197512124, -55)   \* 0.17632698070846498
      [] p = 0       -> FInt(0)
      [] p = 1       -> Double(31441056, 181376994, -82)   \* 1.7453292519943295e-09
      [] p = 14 * PU  -> Double(33464238, 18358100, -55)    \* 0.24932800284318068
      [] p = 266 * (PU \div 10)   -> Double(16802807, 238795445, -53)  \* 0.5007626977438436
      [] p = 3369 * (PU \div 100) -> Double(22369564, 56897053, -53)   \* 0.6666649643170249
      [] p = 45 * PU  -> Double(33554431, 268435455, -53)   \* 0.9999999999999999
      [] p = 60 * PU  -> Double(29058990, 140004520, -52)   \* 1.7320508075688767
      [] p = 90 * PU  -> Double(30419303, 204590517, 1)     \* 1.633123935319537e+16

\* math.cos(math.radians(p / PU)), for 0 <= p <= 90 degrees
math_cos(p) ==
    CASE p = 0       -> FInt(1)
      [] p = 1       -> FInt(1)                            \* 1.0
      [] p = 14 * PU  -> Double(32557721, 259635749, -53)   \* 0.9702957262759965
      [] p = 266 * (PU \div 10)   -> Double(30002837, 144294385, -53)  \* 0.8941542368393681
      [] p = 3369 * (PU \div 100) -> Double(27918996, 257126556, -53)  \* 0.8320509480795582
      [] p = 45 * PU  -> Double(23726566, 109001677, -53)   \* 0.7071067811865476
      [] p = 60 * PU  -> Double(16777216, 1, -53)           \* 0.5000000000000001
      [] p = 90 * PU  -> Double(18506339, 51665927, -106)   \* 6.123233995736766e-17

\* true_area_from_footprint(footprint_sqft, pitch_degrees) for an int footprint
\* (cos_angle <= 0 is false of every tabulated cosine)
true_area_from_footprint_float(footprint_sqft, pitch_degrees) ==
    IF pitch_degrees <= 0 \/ pitch_degrees >= 90 * PU THEN FInt(footprint_sqft)
    ELSE FDiv(FInt(footprint_sqft), math_cos(pitch_degrees))

\* the factor of hip_valley_factor from abs(rise): rise enters as rise * rise
hip_valley_of_rise(rise) ==
    FDiv(FSqrt(FAdd(FMul(FMul(FInt(2), rise), rise), FInt(288))),
         FMul(FInt(12), FSqrt(FInt(2))))

\* hip_valley_factor(pitch_degrees): there is no guard on the pitch
hip_valley_factor_float(pitch_degrees) ==
    hip_valley_of_rise(FMul(FInt(12), math_tan(pitch_degrees)))

\* rake_factor(pitch_degrees)
rake_factor_float(pitch_degrees) ==
    IF pitch_degrees <= 0 \/ pitch_degrees >= 90 * PU THEN FInt(1)
    ELSE FDiv(FInt(1), math_cos(pitch_degrees))

-----------------------------------------------------------------------------
(* COMPLEXITY CLASSIFICATION *)

\* Faulty variant of complexity_score: the hip and valley terms are not capped
complexity_score_uncapped(segment_count, hip_count, valley_count, pitch_variation) ==
    (IF segment_count <= 2 THEN 0
     ELSE IF segment_count <= 4 THEN 1
     ELSE IF segment_count <= 6 THEN 2
     ELSE 3)
    + hip_count
    + valley_count * 2
    + (IF pitch_variation > 10 * U THEN 2
       ELSE IF pitch_variation > 5 * U THEN 1
       ELSE 0)

\* the additive score of classify_complexity; pitch_variation in 1/U degrees
complexity_score(segment_count, hip_count, valley_count, pitch_variation) ==
    (IF segment_count <= 2 THEN 0
     ELSE IF segment_count <= 4 THEN 1
     ELSE IF segment_count <= 6 THEN 2
     ELSE 3)
    + Min(hip_count, 4)
    + Min(valley_count * 2, 6)
    + (IF pitch_variation > 10 * U THEN 2
       ELSE IF pitch_variation > 5 * U THEN 1
       ELSE 0)

\* classify_complexity: <<complexity_factor in 1/100, complexity_class>>
classify_complexity(segment_count, hip_count, valley_count, pitch_variation) ==
    LET score == complexity_score(segment_count, hip_count, valley_count,
                                  pitch_variation)
    IN  IF score <= 2 THEN <<100, "simple">>
        ELSE IF score <= 5 THEN <<105, "moderate">>
        ELSE IF score <= 8 THEN <<110, "complex">>
        ELSE <<115, "very_complex">>

-----------------------------------------------------------------------------
(* PARSE SOLAR API RESPONSE INTO SEGMENTS *)

\* one RoofSegment from raw_segments[i]; pitchDegrees and azimuthDegrees in
\* 1/U degrees, areaMeters2 in 1/U m2.  true_area_sqm is kept in 1/10 m2,
\* pitch_degrees and azimuth_degrees (rounded to 0.1) in 1/U degrees.
parse_segment(i, seg) ==
    LET pitch_deg      == seg.pitchDegrees
        azimuth_deg    == seg.azimuthDegrees
        footprint_sqm  == seg.areaMeters2
        footprint_sqft == MulDivNear(footprint_sqm, 107639, U)
        true_area_sqft == true_area_from_footprint(footprint_sqft, pitch_deg)
        true_area_sqm  == true_area_from_footprint(footprint_sqm, pitch_deg)
    IN  [name                |-> "Segment " \o ToString(i),
         footprint_area_sqft |-> RoundDiv(footprint_sqft, U),
         true_area_sqft      |-> RoundDiv(true_area_sqft, U),
         true_area_sqm       |-> RoundDiv(true_area_sqm, U \div 10),
         pitch_degrees       |-> RoundDiv(pitch_deg, U \div 10) * (U \div 10),
         pitch_ratio         |-> pitch_to_ratio(pitch_deg),
         azimuth_degrees     |-> RoundDiv(azimuth_deg, U \div 10) * (U \div 10),
         azimuth_direction   |-> degrees_to_cardinal(azimuth_deg),
         plane_height_meters |-> None]

parse_solar_segments(raw) ==
    [i \in 1..Len(raw) |-> parse_segment(i, raw[i])]

-----------------------------------------------------------------------------
(* EDGE GENERATION ENGINE *)
(* EdgeMeasurement: plan_length_ft and true_length_ft in 1/2 ft (floats    *)
(* that generate_edges rounds to whole feet), pitch_factor in 1/1000.       *)

RECURSIVE SumPitch(_)
SumPitch(segs) ==
    IF segs = <<>> THEN 0 ELSE Head(segs).pitch_degrees + SumPitch(Tail(segs))

EdgeMeasurement(edge_type, label, plan_ft, true_ft, pitch_factor, adjacent) ==
    [edge_type         |-> edge_type,
     label             |-> label,
     plan_length_ft    |-> 2 * plan_ft,
     true_length_ft    |-> 2 * true_ft,
     pitch_factor      |-> pitch_factor,
     adjacent_segments |-> adjacent]

\* Faulty variant of generate_edges_fault: the footprint's square root is
\* taken before the empty list is returned
generate_edges_fault_unguarded(segs, footprint_sqft) ==
    IF footprint_sqft < 0 THEN "ValueError" ELSE "none"

\* the exception generate_edges raises: math.sqrt of a negative number
generate_edges_fault(segs, footprint_sqft) ==
    IF segs # <<>> /\ footprint_sqft < 0 THEN "ValueError" ELSE "none"

\* Faulty variant of ridge_edges: the wing ridge of a hip roof is left out
ridge_edges_main_only(n, building_width_ft, building_length_ft) ==
    << EdgeMeasurement("ridge", "Main Ridge Line",
                       RoundDiv(building_length_ft * 85, 100 * U),
                       RoundDiv(building_length_ft * 85, 100 * U),
                       1000, <<0, 1>>) >>

\* ---- RIDGE LINES ----
ridge_edges(n, building_width_ft, building_length_ft) ==
    << EdgeMeasurement("ridge", "Main Ridge Line",
                       RoundDiv(building_length_ft * 85, 100 * U),
                       RoundDiv(building_length_ft * 85, 100 * U),
                       1000, <<0, 1>>) >>
    \o (IF n >= 4
        THEN << EdgeMeasurement("ridge", "Wing Ridge Line",
                                RoundDiv(building_width_ft, 2 * U),
                                RoundDiv(building_width_ft, 2 * U),
                                1000, <<2, 3>>) >>
        ELSE <<>>)

\* Faulty variant of hip_edges: the true length is the plan length, the hip
\* factor is stored but not applied
hip_edges_factor_not_applied(n, building_width_ft, avg_pitch) ==
    IF n >= 4
    THEN LET hip_plan_ft == MulDivNear(building_width_ft, SqrtFix(2 * F, F), 2 * F)
             hv_factor   == hip_valley_factor(avg_pitch)
             labels      == <<"NE Hip", "NW Hip", "SE Hip", "SW Hip">>
         IN  [i \in 1..4 |->
                 EdgeMeasurement("hip", labels[i],
                                 RoundDiv(hip_plan_ft, U),
                                 RoundDiv(hip_plan_ft, U),
                                 RoundDiv(hv_factor, 1000), None)]
    ELSE <<>>

\* ---- HIP LINES ----
hip_edges(n, building_width_ft, avg_pitch) ==
    IF n >= 4
    THEN LET hip_plan_ft == MulDivNear(building_width_ft, SqrtFix(2 * F, F), 2 * F)
             hv_factor   == hip_valley_factor(avg_pitch)
             hip_true_ft == MulDivNear(hip_plan_ft, hv_factor, F)
             labels      == <<"NE Hip", "NW Hip", "SE Hip", "SW Hip">>
         IN  [i \in 1..4 |->
                 EdgeMeasurement("hip", labels[i],
                                 RoundDiv(hip_plan_ft, U),
                                 RoundDiv(hip_true_ft, U),
                                 RoundDiv(hv_factor, 1000), None)]
    ELSE <<>>

\* Faulty variant of valley_edges: valleys only from five segments on
valley_edges_from_five(n, building_width_ft, avg_pitch) ==
    IF n >= 5
    THEN LET vf             == hip_valley_factor(avg_pitch)
             valley_true_ft == MulDivNear(building_width_ft * 35, vf, 100 * F)
             labels         == <<"East Valley", "West Valley">>
         IN  [i \in 1..2 |->
                 EdgeMeasurement("valley", labels[i],
                                 RoundDiv(building_width_ft * 35, 100 * U),
                                 RoundDiv(valley_true_ft, U),
                                 RoundDiv(vf, 1000), None)]
    ELSE <<>>

\* ---- VALLEY LINES ----
valley_edges(n, building_width_ft, avg_pitch) ==
    IF n >= 4
    THEN LET vf             == hip_valley_factor(avg_pitch)
             valley_true_ft == MulDivNear(building_width_ft * 35, vf, 100 * F)
             labels         == <<"East Valley", "West Valley">>
         IN  [i \in 1..2 |->
                 EdgeMeasurement("valley", labels[i],
                                 RoundDiv(building_width_ft * 35, 100 * U),
                                 RoundDiv(valley_true_ft, U),
                                 RoundDiv(vf, 1000), None)]
    ELSE <<>>

\* ---- EAVE LINES ----
eave_edges(n, building_width_ft, building_length_ft) ==
    IF n >= 4
    THEN LET long  == RoundDiv(building_length_ft * 9, 10 * U)
             short == RoundDiv(building_width_ft * 4, 10 * U)
         IN  << EdgeMeasurement("eave", "South Eave", long, long, 1000, None),
                EdgeMeasurement("eave", "North Eave", long, long, 1000, None),
                EdgeMeasurement("eave", "East Eave", short, short, 1000, None),
                EdgeMeasurement("eave", "West Eave", short, short, 1000, None) >>
    ELSE LET long == RoundDiv(building_length_ft * 95, 100 * U)
         IN  << EdgeMeasurement("eave", "South Eave", long, long, 1000, None),
                EdgeMeasurement("eave", "North Eave", long, long, 1000, None) >>

\* ---- RAKE EDGES ----
rake_edges(n, building_width_ft, avg_pitch) ==
    IF n <= 3
    THEN LET rf           == rake_factor(avg_pitch)
             rake_true_ft == MulDivNear(building_width_ft, rf, 2 * F)
             labels       == <<"East Rake (Left)", "East Rake (Right)",
                               "West Rake (Left)", "West Rake (Right)">>
         IN  [i \in 1..4 |->
                 EdgeMeasurement("rake", labels[i],
                                 RoundDiv(building_width_ft, 2 * U),
                                 RoundDiv(rake_true_ft, U),
                                 RoundDiv(rf, 1000), None)]
    ELSE <<>>

\* generate_edges(segments, total_footprint_sqft), total_footprint_sqft >= 0
\* whenever segments is not empty (see generate_edges_fault)
generate_edges(segs, footprint_sqft) ==
    IF segs = <<>> THEN <<>>
    ELSE LET building_width_ft  == SqrtFix((footprint_sqft * U * 2) \div 3, U)
             building_length_ft == (building_width_ft * 3) \div 2
             avg_pitch          == SumPitch(segs) \div Len(segs)
             n                  == Len(segs)
         IN  ridge_edges(n, building_width_ft, building_length_ft)
             \o hip_edges(n, building_width_ft, avg_pitch)
             \o valley_edges(n, building_width_ft, avg_pitch)
             \o eave_edges(n, building_width_ft, building_length_ft)
             \o rake_edges(n, building_width_ft, avg_pitch)

\* sum(e.true_length_ft for e in edges if e.edge_type == t), in 1/2 ft
RECURSIVE TypeLength(_, _)
TypeLength(es, t) ==
    IF es = <<>> THEN 0
    ELSE (IF Head(es).edge_type = t THEN Head(es).true_length_ft ELSE 0)
         + TypeLength(Tail(es), t)

\* len([e for e in edges if e.edge_type == t])
RECURSIVE TypeCount(_, _)
TypeCount(es, t) ==
    IF es = <<>> THEN 0
    ELSE (IF Head(es).edge_type = t THEN 1 ELSE 0) + TypeCount(Tail(es), t)

\* Faulty variant of compute_edge_summary: total_linear_ft is the rounding of
\* the unrounded overall sum
compute_edge_summary_round_of_sum(es) ==
    [total_ridge_ft  |-> RoundDiv(TypeLength(es, "ridge"), 2),
     total_hip_ft    |-> RoundDiv(TypeLength(es, "hip"), 2),
     total_valley_ft |-> RoundDiv(TypeLength(es, "valley"), 2),
     total_eave_ft   |-> RoundDiv(TypeLength(es, "eave"), 2),
     total_rake_ft   |-> RoundDiv(TypeLength(es, "rake"), 2),
     total_linear_ft |-> RoundDiv(TypeLength(es, "ridge") + TypeLength(es, "hip")
                                  + TypeLength(es, "valley") + TypeLength(es, "eave")
                                  + TypeLength(es, "rake"), 2)]

\* compute_edge_summary(edges): every total is an integer number of feet
compute_edge_summary(es) ==
    LET ridge  == RoundDiv(TypeLength(es, "ridge"), 2)
        hip    == RoundDiv(TypeLength(es, "hip"), 2)
        valley == RoundDiv(TypeLength(es, "valley"), 2)
        eave   == RoundDiv(TypeLength(es, "eave"), 2)
        rake   == RoundDiv(TypeLength(es, "rake"), 2)
    IN  [total_ridge_ft  |-> ridge,
         total_hip_ft    |-> hip,
         total_valley_ft |-> valley,
         total_eave_ft   |-> eave,
         total_rake_ft   |-> rake,
         total_linear_ft |-> RoundDiv(ridge + hip + valley + eave + rake, 1)]

-----------------------------------------------------------------------------
(* MATERIAL ESTIMATE (BILL OF MATERIALS) *)
(* Stored quantities: squares in 1/10 square, every other quantity an int; *)
(* true_length_ft of an edge in 1/2 ft; money in cents (the float is the   *)
(* stored number of cents divided by 100).                                 *)

RECURSIVE MaxPitch(_)
MaxPitch(segs) ==
    IF Len(segs) = 1 THEN Head(segs).pitch_degrees
    ELSE Max(Head(segs).pitch_degrees, MaxPitch(Tail(segs)))

RECURSIVE MinPitch(_)
MinPitch(segs) ==
    IF Len(segs) = 1 THEN Head(segs).pitch_degrees
    ELSE Min(Head(segs).pitch_degrees, MinPitch(Tail(segs)))

\* pitch_variation = max(pitches) - min(pitches) if pitches else 0
pitch_variation_of(segs) ==
    IF segs = <<>> THEN 0 ELSE MaxPitch(segs) - MinPitch(segs)

\* Faulty variant of waste_map: "complex" gets the waste of "very_complex"
waste_map_complex_as_very(complexity_class) ==
    CASE complexity_class = "simple"       -> 10
      [] complexity_class = "moderate"     -> 12
      [] complexity_class = "complex"      -> 15
      [] complexity_class = "very_complex" -> 15
      [] OTHER                             -> 10

\* waste_map.get(complexity_class, 10)
waste_map(complexity_class) ==
    CASE complexity_class = "simple"       -> 10
      [] complexity_class = "moderate"     -> 12
      [] complexity_class = "complex"      -> 14
      [] complexity_class = "very_complex" -> 15
      [] OTHER                             -> 10

\* line_total_cad = round(order_quantity * unit_price_cad * 100) / 100;
\* unit_price_cad the PRICING entry, in cents
MaterialLineItem(category, description, unit, net_quantity, waste_pct, gross_quantity, order_quantity, order_unit, unit_price_cad) ==
    [category       |-> category,
     description    |-> description,
     unit           |-> unit,
     net_quantity   |-> net_quantity,
     waste_pct      |-> waste_pct,
     gross_quantity |-> gross_quantity,
     order_quantity |-> order_quantity,
     order_unit     |-> order_unit,
     unit_price_cad |-> unit_price_cad,
     line_total_cad |-> FRound(FMul(FMul(FInt(order_quantity),
                                         Dollars(unit_price_cad)), FInt(100)))]

\* 1. Shingles; net_area and gross_squares floats
shingles_item(net_area, base_waste, gross_squares, bundle_count, sh_type) ==
    LET price_per_bundle == IF sh_type = "architectural"
                            THEN PRICING.architectural_bundle
                            ELSE PRICING.tab3_bundle
    IN  MaterialLineItem("shingles",
            (IF sh_type = "architectural" THEN "Architectural (Laminate)"
             ELSE "3-Tab Standard") \o " Shingles",
            "squares", FRound(FMul(FDiv(net_area, FInt(100)), FInt(10))),
            base_waste, InTenths(gross_squares), bundle_count, "bundles",
            price_per_bundle)

\* Faulty variant of underlayment_item: at least one roll is ordered
underlayment_item_min_one(net_area, gross_area) ==
    MaterialLineItem("underlayment", "Synthetic Underlayment", "rolls",
        FCeil(FDiv(net_area, FInt(1000))), 10,
        Max(1, FCeil(FDiv(gross_area, FInt(1000)))),
        Max(1, FCeil(FDiv(gross_area, FInt(1000)))), "rolls",
        PRICING.underlayment_roll)

\* 2. Underlayment: 1000 sqft per roll; net_area and gross_area floats
underlayment_item(net_area, gross_area) ==
    LET underlayment_rolls == FCeil(FDiv(gross_area, FInt(1000)))
    IN  MaterialLineItem("underlayment", "Synthetic Underlayment", "rolls",
            FCeil(FDiv(net_area, FInt(1000))), 10, underlayment_rolls,
            underlayment_rolls, "rolls", PRICING.underlayment_roll)

\* 3. Ice & Water Shield: (eave + valley) * 3 ft wide, 75 sqft per roll
ice_shield_item(total_eave_ft, total_valley_ft) ==
    LET ice_shield_linear_ft == FAdd(total_eave_ft, total_valley_ft)
        ice_shield_sqft      == FMul(ice_shield_linear_ft, FInt(3))
        ice_shield_rolls     == FCeil(FDiv(ice_shield_sqft, FInt(75)))
    IN  MaterialLineItem("ice_shield", "Ice & Water Shield Membrane", "rolls",
            ice_shield_rolls, 5, ice_shield_rolls, ice_shield_rolls,
            "rolls", PRICING.ice_shield_roll)

\* 4. Starter Strip: 105 ft per bundle
starter_strip_item(total_eave_ft, total_rake_ft) ==
    LET starter_linear_ft == FAdd(total_eave_ft, total_rake_ft)
        starter_bundles   == FCeil(FDiv(starter_linear_ft, FInt(105)))
    IN  MaterialLineItem("starter_strip", "Starter Strip Shingles", "linear_ft",
            FRound(starter_linear_ft), 5,
            FRound(FMul(starter_linear_ft, GROSS_LINEAR_FACTOR)),
            starter_bundles, "bundles", PRICING.starter_bundle)

\* 5. Ridge/Hip Cap: 33 ft per bundle
ridge_cap_item(total_ridge_ft, total_hip_ft) ==
    LET ridge_hip_linear_ft == FAdd(total_ridge_ft, total_hip_ft)
        ridge_cap_bundles   == FCeil(FDiv(ridge_hip_linear_ft, FInt(33)))
    IN  MaterialLineItem("ridge_cap", "Ridge/Hip Cap Shingles", "linear_ft",
            FRound(ridge_hip_linear_ft), 5,
            FRound(FMul(ridge_hip_linear_ft, GROSS_LINEAR_FACTOR)),
            ridge_cap_bundles, "bundles", PRICING.ridge_cap_bundle)

\* 6. Drip Edge: 10 ft sections
drip_edge_item(total_eave_ft, total_rake_ft) ==
    LET drip_edge_linear_ft == FAdd(total_eave_ft, total_rake_ft)
        drip_edge_pieces    == FCeil(FDiv(drip_edge_linear_ft, FInt(10)))
    IN  MaterialLineItem("drip_edge", "Aluminum Drip Edge (10 ft sections)",
            "pieces", drip_edge_pieces, 5, drip_edge_pieces, drip_edge_pieces,
            "pieces", PRICING.drip_edge_piece)

\* 7. Valley Flashing, only if total_valley_ft > 0: 10 ft pieces
valley_items(total_valley_ft) ==
    IF FGt(total_valley_ft, FInt(0))
    THEN LET valley_pieces == FCeil(FDiv(total_valley_ft, FInt(10)))
         IN  << MaterialLineItem("valley_metal",
                    "Pre-bent Valley Flashing (W-valley, 10 ft)", "pieces",
                    valley_pieces, 10, valley_pieces, valley_pieces,
                    "pieces", PRICING.valley_flashing_piece) >>
    ELSE <<>>

\* 8. Nails: 1.5 lbs per square, 30 lb boxes; gross_squares a float
nails_item(gross_squares) ==
    LET nail_lbs   == FCeil(FMul(gross_squares, NAIL_LBS_PER_SQUARE))
        nail_boxes == FCeil(FDiv(FInt(nail_lbs), FInt(30)))
    IN  MaterialLineItem("nails", "1-1/4\" Galvanized Roofing Nails (30 lb box)",
            "lbs", FRound(FMul(gross_squares, NAIL_LBS_PER_SQUARE)), 0,
            nail_lbs, nail_boxes, "boxes", PRICING.nail_box_30lb)

\* Faulty variant of vent_items: the item is appended without the test
\* total_ridge_ft > 0
vent_items_unguarded(total_ridge_ft) ==
    << MaterialLineItem("ventilation", "Ridge Vent (4 ft sections)", "pieces",
           FCeil(FDiv(total_ridge_ft, FInt(4))), 5,
           FCeil(FDiv(total_ridge_ft, FInt(4))),
           FCeil(FDiv(total_ridge_ft, FInt(4))), "pieces",
           PRICING.ridge_vent_piece) >>

\* 9. Ridge Vent, only if total_ridge_ft > 0: 4 ft sections
vent_items(total_ridge_ft) ==
    IF FGt(total_ridge_ft, FInt(0))
    THEN LET vent_pieces == FCeil(FDiv(total_ridge_ft, FInt(4)))
         IN  << MaterialLineItem("ventilation", "Ridge Vent (4 ft sections)",
                    "pieces", vent_pieces, 5, vent_pieces, vent_pieces,
                    "pieces", PRICING.ridge_vent_piece) >>
    ELSE <<>>

\* Faulty variant of total_cost: every line total is cut to whole dollars
RECURSIVE total_cost_whole_dollars(_)
total_cost_whole_dollars(items) ==
    IF items = <<>> THEN FInt(0)
    ELSE FAdd(total_cost_whole_dollars(SubSeq(items, 1, Len(items) - 1)),
              FInt(items[Len(items)].line_total_cad \div 100))

\* total_cost = sum(item.line_total_cad for item in line_items), a float:
\* sum() adds from the left, starting at 0
RECURSIVE total_cost(_)
total_cost(items) ==
    IF items = <<>> THEN FInt(0)
    ELSE FAdd(total_cost(SubSeq(items, 1, Len(items) - 1)),
              Dollars(items[Len(items)].line_total_cad))

\* the line_items list, in the order the code appends; net_area, gross_area
\* and gross_squares floats
bom_line_items(net_area, es, base_waste, gross_area, gross_squares, bundle_count, sh_type) ==
    LET total_ridge_ft  == FHalves(TypeLength(es, "ridge"))
        total_hip_ft    == FHalves(TypeLength(es, "hip"))
        total_valley_ft == FHalves(TypeLength(es, "valley"))
        total_eave_ft   == FHalves(TypeLength(es, "eave"))
        total_rake_ft   == FHalves(TypeLength(es, "rake"))
    IN  << shingles_item(net_area, base_waste, gross_squares, bundle_count, sh_type),
           underlayment_item(net_area, gross_area),
           ice_shield_item(total_eave_ft, total_valley_ft),
           starter_strip_item(total_eave_ft, total_rake_ft),
           ridge_cap_item(total_ridge_ft, total_hip_ft),
           drip_edge_item(total_eave_ft, total_rake_ft) >>
        \o valley_items(total_valley_ft)
        \o << nails_item(gross_squares) >>
        \o vent_items(total_ridge_ft)

\* Faulty variant of bom_complexity: the hip and valley edges are not counted
bom_complexity_no_edges(es, segs) ==
    classify_complexity(Len(segs), 0, 0, pitch_variation_of(segs))

\* the (complexity_factor, complexity_class) pair compute_material_estimate obtains
bom_complexity(es, segs) ==
    classify_complexity(Len(segs), TypeCount(es, "hip"), TypeCount(es, "valley"),
                        pitch_variation_of(segs))

\* the MaterialEstimate compute_material_estimate returns; net_area, gross_area
\* and gross_squares floats
MaterialEstimate(net_area, base_waste, gross_area, gross_squares, bundle_count, line_items, complexity, sh_type) ==
    [net_area_sqft           |-> FRound(net_area),
     waste_pct               |-> base_waste,
     gross_area_sqft         |-> FRound(gross_area),
     gross_squares           |-> InTenths(gross_squares),
     bundle_count            |-> bundle_count,
     line_items              |-> line_items,
     total_material_cost_cad |-> InCents(total_cost(line_items)),
     complexity_factor       |-> complexity[1],
     complexity_class        |-> complexity[2],
     shingle_type            |-> sh_type]

\* compute_material_estimate(true_area_sqft, edges, segments, shingle_type);
\* true_area_sqft an int >= 0
compute_material_estimate(true_area_sqft, es, segs, sh_type) ==
    LET complexity    == bom_complexity(es, segs)
        base_waste    == waste_map(complexity[2])
        net_area      == FInt(true_area_sqft)
        gross_area    == FMul(net_area,
                              FAdd(FInt(1), FDiv(FInt(base_waste), FInt(100))))
        gross_squares == Tenths(FCeil(FMul(FDiv(gross_area, FInt(100)), FInt(10))))
        bundle_count  == FCeil(FMul(gross_squares, FInt(3)))
    IN  MaterialEstimate(net_area, base_waste, gross_area, gross_squares,
            bundle_count,
            bom_line_items(net_area, es, base_waste, gross_area, gross_squares,
                           bundle_count, sh_type),
            complexity, sh_type)

-----------------------------------------------------------------------------
(* WASTE TABLE GENERATION *)

\* Faulty variant of waste_row_of: the squares are rounded up to whole squares
\* before they are turned into bundles
waste_row_of_whole_squares(w, gross_sqft, squares) ==
    [waste_pct   |-> w[1],
     factor      |-> w[2],
     description |-> w[3],
     gross_sqft  |-> FRound(gross_sqft),
     squares     |-> FRound(FMul(squares, FInt(10))),
     bundles     |-> FCeil(squares) * 3]

\* one row; total_sqft an int >= 0; squares in 1/10 square, factor in 1/100
waste_row_of(w, gross_sqft, squares) ==
    [waste_pct   |-> w[1],
     factor      |-> w[2],
     description |-> w[3],
     gross_sqft  |-> FRound(gross_sqft),
     squares     |-> FRound(FMul(squares, FInt(10))),
     bundles     |-> FCeil(FMul(squares, FInt(3)))]

waste_row_gross(w, gross_sqft) ==
    waste_row_of(w, gross_sqft, FDiv(gross_sqft, FInt(100)))

waste_row(total_sqft, w) ==
    waste_row_gross(w, FMul(FInt(total_sqft), FLit(w[2], 100)))

generate_waste_table(total_sqft) ==
    [i \in 1..Len(WASTE_FACTORS) |-> waste_row(total_sqft, WASTE_FACTORS[i])]

-----------------------------------------------------------------------------
(* RAS YIELD ANALYSIS *)
(* Stored fields: gallons and squares in 1/10, percentages in 1/10         *)
(* percent, money in cents, weights in whole pounds.                        *)

weight_per_square(sh_type) == IF sh_type = "architectural" THEN 250 ELSE 230

\* Faulty variant of recovery_class_of: the thresholds are applied to the
\* pitch in degrees, not to the rise
recovery_class_of_degrees(pitch_degrees) ==
    IF pitch_degrees <= 4 * U THEN "binder_oil"
    ELSE IF pitch_degrees > 6 * U THEN "granule"
    ELSE "mixed"

\* recovery class of one segment, from pitch_rise = 12 * tan(pitch)
recovery_class_of(pitch_degrees) ==
    LET pitch_rise == 12 * Tan(pitch_degrees)      \* 1/F
    IN  IF pitch_rise <= 4 * F THEN "binder_oil"
        ELSE IF pitch_rise > 6 * F THEN "granule"
        ELSE "mixed"

\* yield rates by class, in percent of the segment weight
binder_rate(c) ==
    CASE c = "binder_oil" -> 32 [] c = "mixed" -> 28 [] c = "granule" -> 25

granule_rate(c) ==
    CASE c = "granule" -> 40 [] c = "mixed" -> 36 [] c = "binder_oil" -> 33

fiber_rate(c) ==
    CASE c = "binder_oil" -> 8 [] c = "mixed" -> 7 [] c = "granule" -> 6

\* one RASSegmentYield
RASSegmentYield(seg, recovery_class, seg_weight) ==
    LET binder_oil_lbs     == FMul(seg_weight, FLit(binder_rate(recovery_class), 100))
        binder_oil_gallons == FDiv(binder_oil_lbs, FInt(8))
    IN  [segment_name       |-> seg.name,
         pitch_degrees      |-> seg.pitch_degrees,
         pitch_ratio        |-> seg.pitch_ratio,
         area_sqft          |-> seg.true_area_sqft,
         recovery_class     |-> recovery_class,
         binder_oil_gallons |-> FRound(FMul(binder_oil_gallons, FInt(10))),
         granules_lbs       |-> FRound(FMul(seg_weight,
                                    FLit(granule_rate(recovery_class), 100))),
         fiber_lbs          |-> FRound(FMul(seg_weight,
                                    FLit(fiber_rate(recovery_class), 100)))]

\* Faulty variant of ras_segment: the segment's squares are its area over 10
ras_segment_squares_of_ten(seg, sh_type) ==
    LET seg_squares == FDiv(FInt(seg.true_area_sqft), FInt(10))
    IN  RASSegmentYield(seg, recovery_class_of(seg.pitch_degrees),
                        FMul(seg_squares, FInt(weight_per_square(sh_type))))

\* the loop body of compute_ras_yield, for one segment
ras_segment(seg, sh_type) ==
    LET seg_squares == FDiv(FInt(seg.true_area_sqft), FInt(100))
    IN  RASSegmentYield(seg, recovery_class_of(seg.pitch_degrees),
                        FMul(seg_squares, FInt(weight_per_square(sh_type))))

\* sum(s.binder_oil_gallons for s in ras_segments), a float: sum() adds from
\* the left, starting at 0
RECURSIVE SumGallons(_)
SumGallons(rs) ==
    IF rs = <<>> THEN FInt(0)
    ELSE FAdd(SumGallons(SubSeq(rs, 1, Len(rs) - 1)),
              Tenths(rs[Len(rs)].binder_oil_gallons))

\* sum(s.f for s in ras_segments) for an int field f
RECURSIVE SumField(_, _)
SumField(rs, f) ==
    IF rs = <<>> THEN 0 ELSE Head(rs)[f] + SumField(Tail(rs), f)

\* sum(s.area_sqft for s in ras_segments if s.recovery_class == c)
RECURSIVE ClassArea(_, _)
ClassArea(rs, c) ==
    IF rs = <<>> THEN 0
    ELSE (IF Head(rs).recovery_class = c THEN Head(rs).area_sqft ELSE 0)
         + ClassArea(Tail(rs), c)

\* Faulty variant of recommendation_of: a share of exactly 60% already counts
\* as dominant
recommendation_of_at_least(low_pct, high_pct) ==
    IF ~FGt(FInt(60), low_pct)
    THEN "Prioritize binder oil extraction - low-pitch dominant roof."
    ELSE IF ~FGt(FInt(60), high_pct)
    THEN "Prioritize granule separation - steep-pitch dominant roof."
    ELSE "Mixed recovery stream - process through full RAS line."

\* the recommendation text (its first sentence); low_pct and high_pct floats
recommendation_of(low_pct, high_pct) ==
    IF FGt(low_pct, FInt(60))
    THEN "Prioritize binder oil extraction - low-pitch dominant roof."
    ELSE IF FGt(high_pct, FInt(60))
    THEN "Prioritize granule separation - steep-pitch dominant roof."
    ELSE "Mixed recovery stream - process through full RAS line."

\* the slope distribution and the recommendation drawn from it, from the
\* three class areas
slope_report(low_pitch_area, med_pitch_area, high_pitch_area, total_area) ==
    LET low_pct  == FMul(FDiv(FInt(low_pitch_area), FInt(total_area)), FInt(100))
        med_pct  == FMul(FDiv(FInt(med_pitch_area), FInt(total_area)), FInt(100))
        high_pct == FMul(FDiv(FInt(high_pitch_area), FInt(total_area)), FInt(100))
    IN  [processing_recommendation |-> recommendation_of(low_pct, high_pct),
         slope_distribution        |->
             [low_pitch_pct    |-> FRound(FMul(low_pct, FInt(10))),
              medium_pitch_pct |-> FRound(FMul(med_pct, FInt(10))),
              high_pitch_pct   |-> FRound(FMul(high_pct, FInt(10)))]]

\* sum(low, med, high) or 1
total_area_of(area_sum) == IF area_sum = 0 THEN 1 ELSE area_sum

\* the RASYieldAnalysis compute_ras_yield returns, from the totals of its
\* loop; total_squares, total_weight and total_oil floats
RASYieldAnalysis(true_area_sqft, total_squares, total_weight, ras_segments, total_oil, total_granules, total_fiber, slope) ==
    LET total_recoverable == FAdd(FAdd(FMul(total_oil, FInt(8)),
                                       FInt(total_granules)), FInt(total_fiber))
        oil_value         == FMul(total_oil, FLit(350, 100))
        granule_value     == FMul(FInt(total_granules), FLit(8, 100))
        fiber_value       == FMul(FInt(total_fiber), FLit(12, 100))
    IN  [total_area_sqft           |-> FRound(FInt(true_area_sqft)),
         total_squares             |-> FRound(FMul(total_squares, FInt(10))),
         estimated_weight_lbs      |-> FRound(total_weight),
         segments                  |-> ras_segments,
         total_binder_oil_gallons  |-> FRound(FMul(total_oil, FInt(10))),
         total_granules_lbs        |-> total_granules,
         total_fiber_lbs           |-> total_fiber,
         total_recoverable_lbs     |-> FRound(total_recoverable),
         recovery_rate_pct         |->
             FRound(FMul(FDiv(total_recoverable,
                              IF FIsZero(total_weight) THEN FInt(1)
                              ELSE total_weight),
                         FInt(1000))),
         market_value_oil_cad      |-> FRound(FMul(oil_value, FInt(100))),
         market_value_granules_cad |-> FRound(FMul(granule_value, FInt(100))),
         market_value_fiber_cad    |-> FRound(FMul(fiber_value, FInt(100))),
         market_value_total_cad    |->
             FRound(FMul(FAdd(FAdd(oil_value, granule_value), fiber_value),
                         FInt(100))),
         processing_recommendation |-> slope.processing_recommendation,
         slope_distribution        |-> slope.slope_distribution]

\* compute_ras_yield after its loop over the segments
ras_totals(true_area_sqft, total_squares, sh_type, ras_segments) ==
    RASYieldAnalysis(true_area_sqft, total_squares,
        FMul(total_squares, FInt(weight_per_square(sh_type))), ras_segments,
        SumGallons(ras_segments), SumField(ras_segments, "granules_lbs"),
        SumField(ras_segments, "fiber_lbs"),
        slope_report(ClassArea(ras_segments, "binder_oil"),
                     ClassArea(ras_segments, "mixed"),
                     ClassArea(ras_segments, "granule"),
                     total_area_of(ClassArea(ras_segments, "binder_oil")
                                   + ClassArea(ras_segments, "mixed")
                                   + ClassArea(ras_segments, "granule"))))

\* compute_ras_yield(segments, true_area_sqft, shingle_type); true_area_sqft
\* an int >= 0
compute_ras_yield(segs, true_area_sqft, sh_type) ==
    ras_totals(true_area_sqft, FDiv(FInt(true_area_sqft), FInt(100)), sh_type,
               [i \in 1..Len(segs) |-> ras_segment(segs[i], sh_type)])

-----------------------------------------------------------------------------
(* Input domains *)

MaxSegments     == 4    \* longest roofSegmentStats list enumerated in full
MaxRoofSegments == 7    \* longest segment list of the direct calls
MaxSegmentCount == 8    \* classify_complexity: largest segment_count
MaxHipCount     == 5    \* classify_complexity: largest hip_count
MaxValleyCount  == 4    \* classify_complexity: largest valley_count

\* roofSegmentStats entries: 6:12 facing S (500 sqft), 3:12 facing E, 8:12 facing W
RawKinds ==
    << [pitchDegrees |-> 266000, azimuthDegrees |-> 1800000, areaMeters2 |-> 464516],
       [pitchDegrees |-> 140000, azimuthDegrees |-> 900000,  areaMeters2 |-> 603000],
       [pitchDegrees |-> 337000, azimuthDegrees |-> 2700000, areaMeters2 |-> 301000] >>

RawKindSet == {RawKinds[i] : i \in 1..Len(RawKinds)}

\* every roofSegmentStats list of at most MaxSegments entries
RawLists == UNION {[1..n -> RawKindSet] : n \in 0..MaxSegments}

\* a list of n entries: one a, then b's
PatternRaw(n, a, b) == [i \in 1..n |-> IF i = 1 THEN a ELSE b]

\* segment lists of the direct calls: pitch variation 0, 7.1 and 12.6 degrees
RoofLists ==
    {parse_solar_segments(PatternRaw(n, RawKinds[a], RawKinds[1])) :
        n \in 0..MaxRoofSegments, a \in 1..Len(RawKinds)}

ShingleChoices == {"architectural", "3-tab"}      \* argparse choices

ShingleArgs == ShingleChoices \cup {"cedar"}      \* any str may be passed

\* flat roofs: every segment of pitch 0
FlatRaw == [pitchDegrees |-> 0, azimuthDegrees |-> 0, areaMeters2 |-> 464516]

FlatLists ==
    {parse_solar_segments(PatternRaw(n, FlatRaw, FlatRaw)) : n \in 1..MaxRoofSegments}

\* true_area_sqft arguments of the direct calls
Areas == {0, 1000}

\* total_footprint_sqft arguments of the direct generate_edges calls
Footprints == {-100, 0, 1350, 2000, 2600}

\* an edge handed to compute_material_estimate: lengths in 1/2 ft
PoolEdge(edge_type, half_ft) ==
    [edge_type         |-> edge_type,
     label             |-> "Edge",
     plan_length_ft    |-> half_ft,
     true_length_ft    |-> half_ft,
     pitch_factor      |-> 1000,
     adjacent_segments |-> None]

\* edges of 0, 30.5 and 105 ft, in the order generate_edges emits the types
EdgePool ==
    << PoolEdge("ridge", 61), PoolEdge("hip", 61), PoolEdge("valley", 0),
       PoolEdge("valley", 61), PoolEdge("eave", 210) >>

\* the members of pool whose index is in S, in order
SubList(pool, S) ==
    LET pick[i \in 0..Len(pool)] ==
            IF i = 0 THEN <<>>
            ELSE IF i \in S THEN Append(pick[i - 1], pool[i]) ELSE pick[i - 1]
    IN  pick[Len(pool)]

\* edge lists of the direct calls: every sub-list of EdgePool
EdgeLists == {SubList(EdgePool, S) : S \in SUBSET (1..Len(EdgePool))}

\* pitch_variation arguments of the direct classify_complexity calls, 1/U degrees
PitchVariations == {0, 50000, 51000, 100000, 101000, 120000}

ClassifyArgs ==
    [segment_count   : 0..MaxSegmentCount,
     hip_count       : 0..MaxHipCount,
     valley_count    : 0..MaxValleyCount,
     pitch_variation : PitchVariations]

-----------------------------------------------------------------------------
(* RoofingAnalysisEngine.analyze: the pipeline, one action per numbered step *)

RECURSIVE SumOf(_, _)
SumOf(segs, f) ==
    IF segs = <<>> THEN 0 ELSE Head(segs)[f] + SumOf(Tail(segs), f)

Init ==
    /\ pc = "parse"
    /\ fault = "none"
    /\ raw_segments \in RawLists
    /\ shingle_type \in ShingleChoices
    /\ segments = <<>>
    /\ total_footprint_sqft = 0
    /\ total_true_area_sqft = 0
    /\ edges = <<>>
    /\ edge_summary = None
    /\ materials = None
    /\ waste_table = <<>>
    /\ ras_yield = None
    /\ cargs = None
    /\ cresult = None

\* [3/10] segments = parse_solar_segments(solar_data)
ParseSegments ==
    /\ pc = "parse"
    /\ segments' = parse_solar_segments(raw_segments)
    /\ pc' = "totals"
    /\ UNCHANGED <<fault, raw_segments, shingle_type, total_footprint_sqft,
                   total_true_area_sqft, edges, edge_summary, materials,
                   waste_table, ras_yield, cargs, cresult>>

\* [4/10] area totals
ComputeTotals ==
    /\ pc = "totals"
    /\ total_footprint_sqft' = SumOf(segments, "footprint_area_sqft")
    /\ total_true_area_sqft' = SumOf(segments, "true_area_sqft")
    /\ pc' = "edges"
    /\ UNCHANGED <<fault, raw_segments, shingle_type, segments, edges,
                   edge_summary, materials, waste_table, ras_yield, cargs, cresult>>

\* [5/10] edges = generate_edges(segments, total_footprint_sqft)
GenerateEdges ==
    /\ pc = "edges"
    /\ edges' = generate_edges(segments, total_footprint_sqft)
    /\ pc' = "edge_summary"
    /\ UNCHANGED <<fault, raw_segments, shingle_type, segments,
                   total_footprint_sqft, total_true_area_sqft, edge_summary,
                   materials, waste_table, ras_yield, cargs, cresult>>

\* [5/10] edge_summary = compute_edge_summary(edges)
ComputeEdgeSummary ==
    /\ pc = "edge_summary"
    /\ edge_summary' = compute_edge_summary(edges)
    /\ pc' = "materials"
    /\ UNCHANGED <<fault, raw_segments, shingle_type, segments,
                   total_footprint_sqft, total_true_area_sqft, edges,
                   materials, waste_table, ras_yield, cargs, cresult>>

\* Faulty variant of ComputeMaterials: the valley edges are removed from the
\* caller's list while the edges are classified
ComputeMaterials_consuming_valleys ==
    /\ pc = "materials"
    /\ materials' = compute_material_estimate(total_true_area_sqft, edges,
                                              segments, shingle_type)
    /\ edges' = SelectSeq(edges, LAMBDA e : e.edge_type # "valley")
    /\ pc' = "waste"
    /\ UNCHANGED <<fault, raw_segments, shingle_type, segments,
                   total_footprint_sqft, total_true_area_sqft,
                   edge_summary, waste_table, ras_yield, cargs, cresult>>

\* [6/10] materials = compute_material_estimate(...)
ComputeMaterials ==
    /\ pc = "materials"
    /\ materials' = compute_material_estimate(total_true_area_sqft, edges,
                                              segments, shingle_type)
    /\ pc' = "waste"
    /\ UNCHANGED <<fault, raw_segments, shingle_type, segments,
                   total_footprint_sqft, total_true_area_sqft, edges,
                   edge_summary, waste_table, ras_yield, cargs, cresult>>

\* [7/10] waste_table = generate_waste_table(total_true_area_sqft)
GenerateWasteTable ==
    /\ pc = "waste"
    /\ waste_table' = generate_waste_table(total_true_area_sqft)
    /\ pc' = "ras"
    /\ UNCHANGED <<fault, raw_segments, shingle_type, segments,
                   total_footprint_sqft, total_true_area_sqft, edges,
                   edge_summary, materials, ras_yield, cargs, cresult>>

\* [8/10] ras_yield = compute_ras_yield(segments, total_true_area_sqft, shingle_type)
ComputeRasYield ==
    /\ pc = "ras"
    /\ ras_yield' = compute_ras_yield(segments, total_true_area_sqft, shingle_type)
    /\ pc' = "done"
    /\ UNCHANGED <<fault, raw_segments, shingle_type, segments,
                   total_footprint_sqft, total_true_area_sqft, edges,
                   edge_summary, materials, waste_table, cargs, cresult>>

Next ==
    \/ ParseSegments
    \/ ComputeTotals
    \/ GenerateEdges
    \/ ComputeEdgeSummary
    \/ ComputeMaterials
    \/ GenerateWasteTable
    \/ ComputeRasYield

Spec == Init /\ [][Next]_vars

-----------------------------------------------------------------------------
(* Direct calls of classify_complexity *)

InitClassify ==
    /\ pc = "classify_call"
    /\ cargs \in ClassifyArgs
    /\ fault = "none"
    /\ raw_segments = <<>>
    /\ shingle_type = "architectural"
    /\ segments = <<>>
    /\ total_footprint_sqft = 0
    /\ total_true_area_sqft = 0
    /\ edges = <<>>
    /\ edge_summary = None
    /\ materials = None
    /\ waste_table = <<>>
    /\ ras_yield = None
    /\ cresult = None

CallClassify ==
    /\ pc = "classify_call"
    /\ cresult' = classify_complexity(cargs.segment_count, cargs.hip_count,
                                      cargs.valley_count, cargs.pitch_variation)
    /\ pc' = "done"
    /\ UNCHANGED <<fault, raw_segments, shingle_type, segments,
                   total_footprint_sqft, total_true_area_sqft, edges,
                   edge_summary, materials, waste_table, ras_yield, cargs>>

NextClassify == CallClassify

SpecClassify == InitClassify /\ [][NextClassify]_vars

-----------------------------------------------------------------------------
(* Direct calls of compute_material_estimate *)

InitBOM ==
    /\ pc = "bom_call"
    /\ total_true_area_sqft \in Areas
    /\ edges \in EdgeLists
    /\ segments \in RoofLists
    /\ shingle_type \in ShingleArgs
    /\ fault = "none"
    /\ raw_segments = <<>>
    /\ total_footprint_sqft = 0
    /\ edge_summary = None
    /\ materials = None
    /\ waste_table = <<>>
    /\ ras_yield = None
    /\ cargs = None
    /\ cresult = None

\* the call returns normally for every shingle_type: no branch raises
CallMaterialEstimate ==
    /\ pc = "bom_call"
    /\ materials' = compute_material_estimate(total_true_area_sqft, edges,
                                              segments, shingle_type)
    /\ fault' = "none"
    /\ pc' = "done"
    /\ UNCHANGED <<raw_segments, shingle_type, segments, total_footprint_sqft,
                   total_true_area_sqft, edges, edge_summary, waste_table,
                   ras_yield, cargs, cresult>>

NextBOM == CallMaterialEstimate

SpecBOM == InitBOM /\ [][NextBOM]_vars

-----------------------------------------------------------------------------
(* Direct calls of generate_edges, then compute_edge_summary on its result *)

InitEdges ==
    /\ pc = "edges_call"
    /\ segments \in RoofLists \cup FlatLists \cup {parse_solar_segments(r) : r \in RawLists}
    /\ total_footprint_sqft \in Footprints
    /\ fault = "none"
    /\ raw_segments = <<>>
    /\ shingle_type = "architectural"
    /\ total_true_area_sqft = 0
    /\ edges = <<>>
    /\ edge_summary = None
    /\ materials = None
    /\ waste_table = <<>>
    /\ ras_yield = None
    /\ cargs = None
    /\ cresult = None

CallGenerateEdges ==
    /\ pc = "edges_call"
    /\ fault' = generate_edges_fault(segments, total_footprint_sqft)
    /\ IF fault' = "none"
       THEN /\ edges' = generate_edges(segments, total_footprint_sqft)
            /\ pc' = "summary_call"
       ELSE /\ edges' = edges
            /\ pc' = "raised"
    /\ UNCHANGED <<raw_segments, shingle_type, segments, total_footprint_sqft,
                   total_true_area_sqft, edge_summary, materials, waste_table,
                   ras_yield, cargs, cresult>>

CallEdgeSummary ==
    /\ pc = "summary_call"
    /\ edge_summary' = compute_edge_summary(edges)
    /\ pc' = "done"
    /\ UNCHANGED <<fault, raw_segments, shingle_type, segments,
                   total_footprint_sqft, total_true_area_sqft, edges,
                   materials, waste_table, ras_yield, cargs, cresult>>

NextEdges == CallGenerateEdges \/ CallEdgeSummary

SpecEdges == InitEdges /\ [][NextEdges]_vars

-----------------------------------------------------------------------------
(* Direct calls of generate_waste_table *)

MaxWasteArea == 60      \* largest total_sqft of the direct calls

InitWaste ==
    /\ pc = "waste_call"
    /\ total_true_area_sqft \in 0..MaxWasteArea
    /\ fault = "none"
    /\ raw_segments = <<>>
    /\ shingle_type = "architectural"
    /\ segments = <<>>
    /\ total_footprint_sqft = 0
    /\ edges = <<>>
    /\ edge_summary = None
    /\ materials = None
    /\ waste_table = <<>>
    /\ ras_yield = None
    /\ cargs = None
    /\ cresult = None

CallWasteTable ==
    /\ pc = "waste_call"
    /\ waste_table' = generate_waste_table(total_true_area_sqft)
    /\ pc' = "done"
    /\ UNCHANGED <<fault, raw_segments, shingle_type, segments,
                   total_footprint_sqft, total_true_area_sqft, edges,
                   edge_summary, materials, ras_yield, cargs, cresult>>

SpecWaste == InitWaste /\ [][CallWasteTable]_vars

-----------------------------------------------------------------------------
(* Direct calls of compute_ras_yield *)

MaxRasSegments == 3     \* longest segment list of the direct calls

\* a RoofSegment handed to compute_ras_yield: pitch in 1/U degrees (one
\* decimal, as parse_solar_segments stores it), true area an int
RasSegment(i, kit) ==
    [name                |-> "Segment " \o ToString(i),
     footprint_area_sqft |-> kit[2],
     true_area_sqft      |-> kit[2],
     true_area_sqm       |-> 0,
     pitch_degrees       |-> kit[1],
     pitch_ratio         |-> pitch_to_ratio(kit[1]),
     azimuth_degrees     |-> 1800000,
     azimuth_direction   |-> "S",
     plane_height_meters |-> None]

\* pitches 0, 14.0 (3:12), 18.4 (rise 3.99), 22.6 (5:12) and 26.6 degrees
\* (rise 6.01), areas 0, 1, 2, 3 and 500 sqft
RasKits == {0, 140000, 184000, 226000, 266000} \X {0, 1, 2, 3, 500}

\* the segment lists: a first segment of one kind, then segments of another
RasLists ==
    {[i \in 1..n |-> RasSegment(i, IF i = 1 THEN a ELSE b)] :
        n \in 0..MaxRasSegments, a \in RasKits, b \in RasKits}

\* the true_area_sqft arguments tried with a segment list: the sum of its
\* true areas (as analyze passes it), 0 and 1
RasAreas(segs) == {SumOf(segs, "true_area_sqft"), 0, 1}

InitRas ==
    /\ pc = "ras_call"
    /\ segments \in RasLists
    /\ total_true_area_sqft \in RasAreas(segments)
    /\ shingle_type \in ShingleChoices
    /\ fault = "none"
    /\ raw_segments = <<>>
    /\ total_footprint_sqft = 0
    /\ edges = <<>>
    /\ edge_summary = None
    /\ materials = None
    /\ waste_table = <<>>
    /\ ras_yield = None
    /\ cargs = None
    /\ cresult = None

CallRasYield ==
    /\ pc = "ras_call"
    /\ ras_yield' = compute_ras_yield(segments, total_true_area_sqft, shingle_type)
    /\ pc' = "done"
    /\ UNCHANGED <<fault, raw_segments, shingle_type, segments,
                   total_footprint_sqft, total_true_area_sqft, edges,
                   edge_summary, materials, waste_table, cargs, cresult>>

SpecRas == InitRas /\ [][CallRasYield]_vars

-----------------------------------------------------------------------------
(* Direct calls of the geometry helpers *)

\* bearings: every multiple of 11.25 degrees from -360 to 720, and 359.9
MaxTurns == 2

Bearings == {k * 112500 : k \in (-32)..(32 * MaxTurns)} \cup {3599000}

\* pitches of pitch_to_ratio, in 1/U degree
RatioPitches == {-100000, 0, 1000, 140000, 266000, 336900, 450000, 600000,
                 800000, 900000, 1000000}

\* pitches of the float helpers, in 1/PU degree: the entries of math_tan
FloatPitches == {-10 * PU, 0, 1, 14 * PU, 266 * (PU \div 10), 3369 * (PU \div 100),
                 45 * PU, 60 * PU, 90 * PU}

GeomFootprints == {1, 850, 1000, 2500}

GeomCalls ==
    {[fn |-> "degrees_to_cardinal", deg |-> d] : d \in Bearings}
    \cup {[fn |-> "pitch_to_ratio", degrees |-> d] : d \in RatioPitches}
    \cup {[fn |-> "true_area_from_footprint", footprint_sqft |-> f, pitch_degrees |-> p] :
              f \in GeomFootprints, p \in FloatPitches}
    \cup {[fn |-> "hip_valley_factor", pitch_degrees |-> p] : p \in FloatPitches}
    \cup {[fn |-> "rake_factor", pitch_degrees |-> p] : p \in FloatPitches}

InitGeom ==
    /\ pc = "geom_call"
    /\ fault = "none"
    /\ raw_segments = <<>>
    /\ shingle_type = "architectural"
    /\ segments = <<>>
    /\ total_footprint_sqft = 0
    /\ total_true_area_sqft = 0
    /\ edges = <<>>
    /\ edge_summary = None
    /\ materials = None
    /\ waste_table = <<>>
    /\ ras_yield = None
    /\ cargs \in GeomCalls
    /\ cresult = None

GeomReturn(r) ==
    /\ pc' = "done"
    /\ cresult' = r
    /\ UNCHANGED <<fault, raw_segments, shingle_type, segments, total_footprint_sqft,
                   total_true_area_sqft, edges, edge_summary, materials, waste_table,
                   ras_yield, cargs>>

CallCardinal ==
    /\ pc = "geom_call"
    /\ cargs.fn = "degrees_to_cardinal"
    /\ GeomReturn(degrees_to_cardinal(cargs.deg))

CallPitchToRatio ==
    /\ pc = "geom_call"
    /\ cargs.fn = "pitch_to_ratio"
    /\ GeomReturn(pitch_to_ratio(cargs.degrees))

CallTrueArea ==
    /\ pc = "geom_call"
    /\ cargs.fn = "true_area_from_footprint"
    /\ GeomReturn(true_area_from_footprint_float(cargs.footprint_sqft, cargs.pitch_degrees))

CallHipValley ==
    /\ pc = "geom_call"
    /\ cargs.fn = "hip_valley_factor"
    /\ GeomReturn(hip_valley_factor_float(cargs.pitch_degrees))

CallRake ==
    /\ pc = "geom_call"
    /\ cargs.fn = "rake_factor"
    /\ GeomReturn(rake_factor_float(cargs.pitch_degrees))

NextGeom == CallCardinal \/ CallPitchToRatio \/ CallTrueArea \/ CallHipValley \/ CallRake

SpecGeom == InitGeom /\ [][NextGeom]_vars

-----------------------------------------------------------------------------
(* Direct calls of compute_edge_summary *)

\* EdgePool, a second ridge of 12.5 ft, a rake, and an edge of a type the
\* function does not know
SummaryPool ==
    EdgePool \o << PoolEdge("ridge", 25), PoolEdge("rake", 61), PoolEdge("flashing", 61) >>

SummaryLists == {SubList(SummaryPool, S) : S \in SUBSET (1..Len(SummaryPool))}

InitSummary ==
    /\ pc = "summary_call"
    /\ edges \in SummaryLists
    /\ fault = "none"
    /\ raw_segments = <<>>
    /\ shingle_type = "architectural"
    /\ segments = <<>>
    /\ total_footprint_sqft = 0
    /\ total_true_area_sqft = 0
    /\ edge_summary = None
    /\ materials = None
    /\ waste_table = <<>>
    /\ ras_yield = None
    /\ cargs = None
    /\ cresult = None

SpecSummary == InitSummary /\ [][CallEdgeSummary]_vars

-----------------------------------------------------------------------------
(* main, batch mode: the loop over the addresses of the batch file.         *)
(* A line is a sequence of characters; cargs holds the command line         *)
(* (whether args.batch exists and its lines), cresult what the run has      *)
(* produced: the address list, the loop index, the "--- [i/n] addr ---"     *)
(* lines printed, the "ERROR:" lines printed and the files written.         *)
(* engine.analyze (network calls) and the two save methods either return or *)
(* raise an Exception.                                                      *)

MaxLines == 3          \* longest batch file

Blank == {" ", "\n"}   \* the whitespace str.strip() removes

\* lines of a batch file: two addresses (one with a trailing blank), an empty
\* line, a comment, and a comment after a leading blank
BatchLines ==
    { <<"a", " ", "b", "\n">>, <<"b", " ", "\n">>, <<"\n">>,
      <<"#", "a", "\n">>, <<" ", "#", "a", "\n">> }

BatchFiles == UNION {[1..n -> BatchLines] : n \in 0..MaxLines}

RECURSIVE LStrip(_)
LStrip(s) == IF s # <<>> /\ Head(s) \in Blank THEN LStrip(Tail(s)) ELSE s

RECURSIVE RStrip(_)
RStrip(s) ==
    IF s # <<>> /\ s[Len(s)] \in Blank THEN RStrip(SubSeq(s, 1, Len(s) - 1)) ELSE s

\* line.strip()
Strip(s) == RStrip(LStrip(s))

\* line.startswith("#")
StartsWithHash(s) == s # <<>> /\ s[1] = "#"

\* [line.strip() for line in f if line.strip() and not line.startswith("#")]
RECURSIVE ReadAddresses(_)
ReadAddresses(lines) ==
    IF lines = <<>> THEN <<>>
    ELSE (IF Strip(Head(lines)) # <<>> /\ ~StartsWithHash(Head(lines))
          THEN <<Strip(Head(lines))>> ELSE <<>>)
         \o ReadAddresses(Tail(lines))

\* re.sub(r'[^a-zA-Z0-9]', '_', addr)[:50]
safe_name(addr) ==
    SubSeq([k \in 1..Len(addr) |-> IF addr[k] \in {"a", "b"} THEN addr[k] ELSE "_"],
           1, Min(50, Len(addr)))

InitBatch ==
    /\ pc = "batch_start"
    /\ cargs \in [exists : BOOLEAN, lines : BatchFiles]
    /\ cresult = None
    /\ fault = "none"
    /\ raw_segments = <<>>
    /\ shingle_type = "architectural"
    /\ segments = <<>>
    /\ total_footprint_sqft = 0
    /\ total_true_area_sqft = 0
    /\ edges = <<>>
    /\ edge_summary = None
    /\ materials = None
    /\ waste_table = <<>>
    /\ ras_yield = None

BatchFrame ==
    UNCHANGED <<raw_segments, shingle_type, segments, total_footprint_sqft,
                total_true_area_sqft, edges, edge_summary, materials, waste_table,
                ras_yield, cargs>>

\* if not os.path.exists(args.batch): sys.exit(1)
BatchFileMissing ==
    /\ pc = "batch_start"
    /\ ~cargs.exists
    /\ pc' = "exit_1"
    /\ UNCHANGED <<fault, cresult>>
    /\ BatchFrame

\* addresses = [...]
ReadBatchFile ==
    /\ pc = "batch_start"
    /\ cargs.exists
    /\ cresult' = [addresses |-> ReadAddresses(cargs.lines), i |-> 0,
                   attempted |-> <<>>, errors |-> <<>>, files |-> <<>>]
    /\ pc' = "batch_loop"
    /\ UNCHANGED fault
    /\ BatchFrame

\* for i, addr in enumerate(addresses): print the header line, enter the try
NextAddress ==
    /\ pc = "batch_loop"
    /\ cresult.i < Len(cresult.addresses)
    /\ cresult' = [cresult EXCEPT !.attempted = Append(@, cresult.addresses[cresult.i + 1])]
    /\ pc' = "batch_analyze"
    /\ UNCHANGED fault
    /\ BatchFrame

\* the loop is exhausted: print "[BATCH] Done." and return
BatchReturn ==
    /\ pc = "batch_loop"
    /\ cresult.i >= Len(cresult.addresses)
    /\ pc' = "batch_done"
    /\ UNCHANGED <<fault, cresult>>
    /\ BatchFrame

\* a call inside the try returns: go on to the next statement
BatchStepOk(from, to, written) ==
    /\ pc = from
    /\ cresult' = [cresult EXCEPT !.files = @ \o written,
                                  !.i = IF to = "batch_loop" THEN @ + 1 ELSE @]
    /\ pc' = to
    /\ UNCHANGED fault
    /\ BatchFrame

\* a call inside the try raises: except Exception prints ERROR and the loop
\* goes on with the next address
BatchStepRaises(from) ==
    /\ pc = from
    /\ cresult' = [cresult EXCEPT !.errors = Append(@, <<cresult.i + 1, from>>),
                                  !.i = @ + 1]
    /\ pc' = "batch_loop"
    /\ UNCHANGED fault
    /\ BatchFrame

\* the file of the current address with the given extension
BatchFile(ext) == <<cresult.i + 1, safe_name(cresult.addresses[cresult.i + 1]), ext>>

\* report = engine.analyze(address=addr, ...); engine.print_summary(report)
AnalyzeReturns == BatchStepOk("batch_analyze", "batch_html", <<>>)

\* Faulty variant of AnalyzeRaises: the exception is not caught and leaves main
AnalyzeRaises_uncaught ==
    /\ pc = "batch_analyze"
    /\ fault' = "Exception"
    /\ pc' = "crashed"
    /\ UNCHANGED cresult
    /\ BatchFrame

AnalyzeRaises == BatchStepRaises("batch_analyze")

\* engine.save_html_report(report, html_path)
SaveHtmlReturns == BatchStepOk("batch_html", "batch_json", <<BatchFile("html")>>)

SaveHtmlRaises == BatchStepRaises("batch_html")

\* engine.save_json(report, json_path)
SaveJsonReturns == BatchStepOk("batch_json", "batch_loop", <<BatchFile("json")>>)

SaveJsonRaises == BatchStepRaises("batch_json")

NextBatch ==
    \/ BatchFileMissing
    \/ ReadBatchFile
    \/ NextAddress
    \/ BatchReturn
    \/ AnalyzeReturns
    \/ AnalyzeRaises
    \/ SaveHtmlReturns
    \/ SaveHtmlRaises
    \/ SaveJsonReturns
    \/ SaveJsonRaises

SpecBatch == InitBatch /\ [][NextBatch]_vars

\* main is one sequential thread: it keeps taking steps until it returns
SpecBatchRun == SpecBatch /\ WF_vars(NextBatch)

-----------------------------------------------------------------------------
(* CLAIMS *)

\* the score, and the pair it fixes, as claim C1 states them; a the record of
\* the four arguments, pitch_variation in 1/U degrees
ClaimedScore(a) ==
    (IF a.segment_count <= 2 THEN 0
     ELSE IF a.segment_count \in 3..4 THEN 1
     ELSE IF a.segment_count \in 5..6 THEN 2
     ELSE 3)
    + Min(a.hip_count, 4)
    + Min(2 * a.valley_count, 6)
    + (IF a.pitch_variation > 10 * U THEN 2
       ELSE IF a.pitch_variation > 5 * U THEN 1
       ELSE 0)

ClaimedPair(s) ==
    CASE s <= 2     -> <<100, "simple">>
      [] s \in 3..5 -> <<105, "moderate">>
      [] s \in 6..8 -> <<110, "complex">>
      [] s > 8      -> <<115, "very_complex">>

ClassifyCall(n, h, v, p) ==
    [segment_count |-> n, hip_count |-> h, valley_count |-> v, pitch_variation |-> p]

\* C1: classify_complexity returns the pair fixed by the additive score
\* s = segScore + min(hip_count, 4) + min(2 * valley_count, 6) + pitchScore:
\* s <= 2 (1.00, simple), 3..5 (1.05, moderate), 6..8 (1.10, complex), s > 8
\* (1.15, very_complex); (2,0,0,0) is simple, (6,4,2,12) scores 12 and is
\* very_complex.
C1_ScoreFixesPair ==
    /\ pc = "done" => cresult = ClaimedPair(ClaimedScore(cargs))
    /\ (pc = "done" /\ cargs = ClassifyCall(2, 0, 0, 0))
           => cresult = <<100, "simple">>
    /\ ClaimedScore(ClassifyCall(6, 4, 2, 12 * U)) = 12
    /\ (pc = "done" /\ cargs = ClassifyCall(6, 4, 2, 12 * U))
           => cresult = <<115, "very_complex">>

C1_Witness ==
    /\ pc = "done"
    /\ cargs = ClassifyCall(6, 4, 2, 12 * U)
    /\ cresult = <<115, "very_complex">>

\* math.ceil(a / b) for integers a >= 0, b > 0
CeilOf(a, b) == (a + b - 1) \div b

\* the order quantity claim C2 requires of a line item: its gross quantity
\* rounded up to the order unit (gross squares are stored in 1/10 square)
RequiredOrder(item) ==
    CASE item.category = "shingles"      -> CeilOf(item.gross_quantity * 3, 10)
      [] item.category = "starter_strip" -> CeilOf(item.gross_quantity, 105)
      [] item.category = "ridge_cap"     -> CeilOf(item.gross_quantity, 33)
      [] item.category = "nails"         -> CeilOf(item.gross_quantity, 30)
      [] OTHER                           -> item.gross_quantity

\* C2: every line item compute_material_estimate returns has an order_quantity
\* equal to its gross_quantity rounded up to the order unit size (3 bundles per
\* square, 105 ft and 33 ft per bundle, 30 lb per box, rolls and pieces as
\* they are), for every net area and every edge list.
C2_OrderIsGrossRoundedUp ==
    pc = "done" =>
        \A i \in 1..Len(materials.line_items) :
            materials.line_items[i].order_quantity
                = RequiredOrder(materials.line_items[i])

\* C3: compute_material_estimate called with a shingle_type that is neither
\* "architectural" nor "3-tab" signals an error and returns no estimate.
C3_InvalidShingleTypeSignalled ==
    (pc # "bom_call" /\ shingle_type \notin {"architectural", "3-tab"})
        => (fault # "none" /\ materials = None)

\* the PRICING entries a line item of the category may carry, in cents
TablePrices(category) ==
    CASE category = "shingles"      -> {PRICING.architectural_bundle, PRICING.tab3_bundle}
      [] category = "underlayment"  -> {PRICING.underlayment_roll}
      [] category = "ice_shield"    -> {PRICING.ice_shield_roll}
      [] category = "starter_strip" -> {PRICING.starter_bundle}
      [] category = "ridge_cap"     -> {PRICING.ridge_cap_bundle}
      [] category = "drip_edge"     -> {PRICING.drip_edge_piece}
      [] category = "valley_metal"  -> {PRICING.valley_flashing_piece}
      [] category = "nails"         -> {PRICING.nail_box_30lb}
      [] category = "ventilation"   -> {PRICING.ridge_vent_piece}

RECURSIVE SumOfLineTotals(_)
SumOfLineTotals(items) ==
    IF items = <<>> THEN 0
    ELSE Head(items).line_total_cad + SumOfLineTotals(Tail(items))

\* C4: total_material_cost_cad is exactly the sum of line_total_cad over the
\* emitted line items, and each line_total_cad is order_quantity times the
\* unit_price_cad of the price table: in cents, no drift between the total
\* and the lines.
C4_TotalIsSumOfLines ==
    pc = "done" =>
        /\ \A i \in 1..Len(materials.line_items) :
               LET item == materials.line_items[i]
               IN  /\ item.unit_price_cad \in TablePrices(item.category)
                   /\ item.line_total_cad = item.order_quantity * item.unit_price_cad
        /\ materials.total_material_cost_cad = SumOfLineTotals(materials.line_items)

\* 1000 sqft under all five edges of the pool, no segments: nine items, 2883.50
C4_Witness ==
    /\ pc = "done"
    /\ total_true_area_sqft = 1000
    /\ edges = EdgePool
    /\ segments = <<>>
    /\ shingle_type = "architectural"
    /\ Len(materials.line_items) = 9
    /\ materials.line_items[6].line_total_cad = 9350
    /\ materials.total_material_cost_cad = 288350

\* the summed true length of the edges of one type, in 1/2 ft
RECURSIVE SummedLength(_, _)
SummedLength(es, t) ==
    IF es = <<>> THEN 0
    ELSE (IF Head(es).edge_type = t THEN Head(es).true_length_ft ELSE 0)
         + SummedLength(Tail(es), t)

CategoriesOf(items) == [i \in 1..Len(items) |-> items[i].category]

\* C5: the valley_metal item is absent iff the summed true length of the
\* valley edges is exactly 0, the ventilation item is absent iff the summed
\* true length of the ridge edges is exactly 0, and the other seven items are
\* always present, in the order shingles, underlayment, ice shield, starter
\* strip, ridge cap, drip edge, [valley flashing], nails, [ridge vent].
C5_OptionalItemsFollowEdgeLength ==
    pc = "done" =>
        CategoriesOf(materials.line_items)
            = <<"shingles", "underlayment", "ice_shield", "starter_strip",
                "ridge_cap", "drip_edge">>
              \o (IF SummedLength(edges, "valley") = 0 THEN <<>>
                  ELSE <<"valley_metal">>)
              \o <<"nails">>
              \o (IF SummedLength(edges, "ridge") = 0 THEN <<>>
                  ELSE <<"ventilation">>)

\* a valley edge of length 0 and a ridge: no valley flashing, a ridge vent
C5_Witness ==
    /\ pc = "done"
    /\ \E i \in 1..Len(edges) : edges[i].edge_type = "valley"
    /\ SummedLength(edges, "valley") = 0
    /\ SummedLength(edges, "ridge") > 0
    /\ CategoriesOf(materials.line_items)
           = <<"shingles", "underlayment", "ice_shield", "starter_strip",
               "ridge_cap", "drip_edge", "nails", "ventilation">>

\* the number of edges of one type
CountOfType(es, t) == Cardinality({i \in 1..Len(es) : es[i].edge_type = t})

\* max pitch - min pitch over the segments, 0 for no segment, in 1/U degrees
PitchSpread(segs) ==
    LET P == {segs[i].pitch_degrees : i \in 1..Len(segs)}
    IN  IF P = {} THEN 0
        ELSE (CHOOSE x \in P : \A y \in P : x >= y)
             - (CHOOSE x \in P : \A y \in P : x <= y)

\* C6: waste_pct, complexity_class and complexity_factor of every
\* MaterialEstimate are one of (10, simple, 1.00), (12, moderate, 1.05),
\* (14, complex, 1.10), (15, very_complex, 1.15), and the class is the one
\* classify_complexity gives for (number of segments, number of hip edges,
\* number of valley edges, max pitch - min pitch).
C6_WasteCoupledToComplexity ==
    pc = "done" =>
        /\ <<materials.waste_pct, materials.complexity_class,
             materials.complexity_factor>>
               \in {<<10, "simple", 100>>, <<12, "moderate", 105>>,
                    <<14, "complex", 110>>, <<15, "very_complex", 115>>}
        /\ <<materials.complexity_factor, materials.complexity_class>>
               = ClaimedPair(ClaimedScore(ClassifyCall(Len(segments),
                     CountOfType(edges, "hip"), CountOfType(edges, "valley"),
                     PitchSpread(segments))))

\* five segments, one hip, one valley, pitches 14.0 and 26.6: score 7
C6_Witness ==
    /\ pc = "done"
    /\ Len(segments) = 5
    /\ CountOfType(edges, "hip") = 1
    /\ CountOfType(edges, "valley") = 1
    /\ PitchSpread(segments) = 126000
    /\ materials.waste_pct = 14
    /\ materials.complexity_class = "complex"
    /\ materials.complexity_factor = 110

\* the end-to-end scenario of claim C7: four segments of 500 sqft footprint,
\* every pitch 26.6 degrees, architectural shingles
Scenario4x500 ==
    /\ raw_segments = [i \in 1..4 |-> RawKinds[1]]
    /\ shingle_type = "architectural"

\* generate_edges emitted 4 hips, 2 valleys, 2 ridges and 4 eaves
HipRoofTopology ==
    /\ CountOfType(edges, "hip") = 4
    /\ CountOfType(edges, "valley") = 2
    /\ CountOfType(edges, "ridge") = 2
    /\ CountOfType(edges, "eave") = 4

\* the estimate applies waste_pct percent: gross area = net * (1 + pct/100),
\* gross squares = that / 100 rounded up to one decimal (stored in 1/10
\* square), bundle_count = ceil(gross_squares * 3)
AppliesWaste(pct) ==
    /\ materials.waste_pct = pct
    /\ materials.net_area_sqft = total_true_area_sqft
    /\ materials.gross_area_sqft
           = RoundDiv(materials.net_area_sqft * (100 + pct), 100)
    /\ materials.gross_squares
           = CeilOf(materials.net_area_sqft * (100 + pct), 1000)
    /\ materials.bundle_count = CeilOf(materials.gross_squares * 3, 10)

\* C7 (as the code has it): in the end-to-end scenario (4 segments, total
\* footprint 2000 sq ft, every pitch 26.6 degrees, architectural shingles)
\* generate_edges emits 4 hips, 2 valleys, 2 ridges and 4 eaves, the
\* complexity class is very_complex (score 1 + 4 + 4 = 9), and
\* compute_material_estimate applies a 15% waste: gross area = net true area
\* * 1.15, gross squares = that / 100 rounded up to one decimal, bundle_count
\* = ceil(gross_squares * 3).
C7_ScenarioAppliesFifteenPercent ==
    (Scenario4x500 /\ pc = "done") =>
        /\ Len(segments) = 4
        /\ total_footprint_sqft = 2000
        /\ \A i \in 1..4 : segments[i].pitch_degrees = 266000
        /\ HipRoofTopology
        /\ materials.complexity_class = "very_complex"
        /\ AppliesWaste(15)

\* C7 (as stated): in the scenario the topology is 4 hips, 2 valleys, 2
\* ridges and 4 eaves, the class is complex or higher, and
\* compute_material_estimate applies a 14% waste: gross area = net * 1.14.
C7_ScenarioAppliesFourteenPercent ==
    (Scenario4x500 /\ pc = "done") =>
        /\ HipRoofTopology
        /\ materials.complexity_class \in {"complex", "very_complex"}
        /\ AppliesWaste(14)

\* net 2236 sqft, gross 2571 sqft, 25.8 squares, 78 bundles
C7_Witness ==
    /\ Scenario4x500
    /\ pc = "done"
    /\ total_footprint_sqft = 2000
    /\ HipRoofTopology
    /\ materials.net_area_sqft = 2236
    /\ materials.waste_pct = 15
    /\ materials.gross_area_sqft = 2571
    /\ materials.gross_squares = 258
    /\ materials.bundle_count = 78

\* the labels of the edges of one type, in order
RECURSIVE LabelsOfType(_, _)
LabelsOfType(es, t) ==
    IF es = <<>> THEN <<>>
    ELSE (IF Head(es).edge_type = t THEN <<Head(es).label>> ELSE <<>>)
         \o LabelsOfType(Tail(es), t)

\* C8: the topology generate_edges emits is fixed by the segment count n: for
\* n >= 4, 2 ridges (Main, Wing), 4 hips, 2 valleys, 4 eaves, 0 rakes (12
\* edges); for 1 <= n <= 3, 1 ridge (Main), 2 eaves, 4 rakes, 0 hips, 0
\* valleys (7 edges); the Main Ridge is emitted for every n >= 1.
C8_TopologyFixedBySegmentCount ==
    (pc \in {"summary_call", "done"}) =>
        LET n == Len(segments)
        IN  /\ n >= 4 =>
                /\ LabelsOfType(edges, "ridge")
                       = <<"Main Ridge Line", "Wing Ridge Line">>
                /\ CountOfType(edges, "hip") = 4
                /\ CountOfType(edges, "valley") = 2
                /\ CountOfType(edges, "eave") = 4
                /\ CountOfType(edges, "rake") = 0
                /\ Len(edges) = 12
            /\ n \in 1..3 =>
                /\ LabelsOfType(edges, "ridge") = <<"Main Ridge Line">>
                /\ CountOfType(edges, "eave") = 2
                /\ CountOfType(edges, "rake") = 4
                /\ CountOfType(edges, "hip") = 0
                /\ CountOfType(edges, "valley") = 0
                /\ Len(edges) = 7
            /\ n >= 1 =>
                \E i \in 1..Len(edges) :
                    edges[i].edge_type = "ridge" /\ edges[i].label = "Main Ridge Line"

\* four segments on 2600 sqft: the 12 edges of a hip roof
C8_Witness ==
    /\ pc = "done"
    /\ Len(segments) = 4
    /\ total_footprint_sqft = 2600
    /\ Len(edges) = 12
    /\ LabelsOfType(edges, "ridge") = <<"Main Ridge Line", "Wing Ridge Line">>

\* C9: generate_edges called with an empty segment list returns an empty edge
\* list and raises no fault, for every value of total_footprint_sqft.
C9_EmptyListGivesNoEdges ==
    (pc # "edges_call" /\ segments = <<>>) =>
        /\ fault = "none"
        /\ pc # "raised"
        /\ edges = <<>>

\* the call with no segments and a negative footprint has returned
C9_Witness ==
    /\ segments = <<>>
    /\ total_footprint_sqft = -100
    /\ pc = "summary_call"
    /\ fault = "none"
    /\ edges = <<>>

\* C10: with an empty segment list and total area 0 nothing raises and every
\* aggregate is zero: the six totals of compute_edge_summary([]); gross area,
\* gross squares, bundle_count, every order_quantity and the total cost of
\* compute_material_estimate(0, [], []); weight, oil, granules, fiber,
\* recoverable weight, recovery rate, the market values and the three slope
\* percentages of compute_ras_yield([], 0).
C10_EmptyRoofIsAllZero ==
    (raw_segments = <<>> /\ pc = "done") =>
        /\ fault = "none"
        /\ segments = <<>> /\ edges = <<>> /\ total_true_area_sqft = 0
        /\ \A f \in {"total_ridge_ft", "total_hip_ft", "total_valley_ft",
                     "total_eave_ft", "total_rake_ft", "total_linear_ft"} :
               edge_summary[f] = 0
        /\ materials.gross_area_sqft = 0
        /\ materials.gross_squares = 0
        /\ materials.bundle_count = 0
        /\ \A i \in 1..Len(materials.line_items) :
               materials.line_items[i].order_quantity = 0
        /\ materials.total_material_cost_cad = 0
        /\ \A f \in {"estimated_weight_lbs", "total_binder_oil_gallons",
                     "total_granules_lbs", "total_fiber_lbs",
                     "total_recoverable_lbs", "recovery_rate_pct",
                     "market_value_oil_cad", "market_value_granules_cad",
                     "market_value_fiber_cad", "market_value_total_cad"} :
               ras_yield[f] = 0
        /\ \A f \in {"low_pitch_pct", "medium_pitch_pct", "high_pitch_pct"} :
               ras_yield.slope_distribution[f] = 0

\* the pipeline has run on an empty roofSegmentStats list: seven line items
C10_Witness ==
    /\ raw_segments = <<>>
    /\ pc = "done"
    /\ Len(materials.line_items) = 7
    /\ materials.total_material_cost_cad = 0
    /\ ras_yield.segments = <<>>
    /\ ras_yield.recovery_rate_pct = 0

-----------------------------------------------------------------------------
\* C11: for every total area > 0, the gross_sqft of the four rows that
\* generate_waste_table returns strictly increase in row order.
C11_GrossSqftStrictlyIncreases ==
    (pc = "done" /\ total_true_area_sqft > 0)
        => /\ Len(waste_table) = 4
           /\ \A i \in 1..3 :
                  waste_table[i].gross_sqft < waste_table[i + 1].gross_sqft

-----------------------------------------------------------------------------
\* the call compute_ras_yield(segments, sum of the segments' true areas, _)
\* has returned, for a non-empty list of positive total area
RasCallOnSum ==
    /\ pc = "done"
    /\ segments # <<>>
    /\ total_true_area_sqft = SumOf(segments, "true_area_sqft")
    /\ total_true_area_sqft > 0

\* C12: for a non-empty segment list (pitches in [0, 90) degrees, integer
\* areas >= 0), either shingle type, and true_area_sqft the positive sum of
\* the segments' true areas, compute_ras_yield returns
\* 0 <= recovery_rate_pct <= 100 (recovery_rate_pct is held in 1/10 percent).
C12_RecoveryRateWithinBounds ==
    RasCallOnSum => (ras_yield.recovery_rate_pct >= 0
                     /\ ras_yield.recovery_rate_pct <= 1000)

\* a 500 sqft 3:12 segment and a 3 sqft 26.6 degree segment, 3-tab: 845 lb
\* recoverable of 1157 lb, 73.0 percent
C12_Witness ==
    /\ RasCallOnSum
    /\ Len(segments) = 2
    /\ total_true_area_sqft = 503
    /\ shingle_type = "3-tab"
    /\ ras_yield.total_recoverable_lbs = 845
    /\ ras_yield.estimated_weight_lbs = 1157
    /\ ras_yield.recovery_rate_pct = 730

-----------------------------------------------------------------------------
\* the class claim C13 gives a rise (in 1/F)
ClaimedRecoveryClass(rise) ==
    IF rise <= 4 * F THEN "binder_oil"
    ELSE IF rise > 6 * F THEN "granule"
    ELSE "mixed"

\* every segment is of uniform 3:12 pitch and one of them has a positive area
Uniform3In12 ==
    /\ \A i \in 1..Len(segments) : segments[i].pitch_ratio = "3.0:12"
    /\ \E i \in 1..Len(segments) : segments[i].true_area_sqft > 0

\* C13: compute_ras_yield classifies each segment from its pitch alone, by
\* rise = 12 * tan(pitch): binder_oil when rise <= 4, granule when rise > 6,
\* mixed otherwise, whatever its area, its name and the shingle type; a roof
\* of uniform 3:12 pitch with some positive area is all binder_oil and has
\* low_pitch_pct 100.0, medium and high 0 (percentages in 1/10 percent).
C13_ClassFromPitchAlone ==
    pc = "done" =>
        /\ Len(ras_yield.segments) = Len(segments)
        /\ \A i \in 1..Len(segments) :
               ras_yield.segments[i].recovery_class =
                   ClaimedRecoveryClass(12 * Tan(segments[i].pitch_degrees))
        /\ Uniform3In12 =>
               /\ \A i \in 1..Len(segments) :
                      ras_yield.segments[i].recovery_class = "binder_oil"
               /\ ras_yield.slope_distribution =
                      [low_pitch_pct |-> 1000, medium_pitch_pct |-> 0,
                       high_pitch_pct |-> 0]

\* three 3:12 segments of 500, 1 and 1 sqft, classified with 3-tab shingles
C13_Witness ==
    /\ pc = "done"
    /\ Uniform3In12
    /\ Len(segments) = 3
    /\ segments[1].true_area_sqft = 500
    /\ segments[2].true_area_sqft = 1
    /\ shingle_type = "3-tab"
    /\ ras_yield.segments[3].recovery_class = "binder_oil"
    /\ ras_yield.slope_distribution.low_pitch_pct = 1000


\* C14: pitch_to_ratio returns exactly "8:12" for 33.69 degrees, and exactly
\* "0:12" for every pitch <= 0 or >= 90 degrees (0 and 90 among them).
C14_RatioStrings ==
    (pc = "done" /\ cargs.fn = "pitch_to_ratio") =>
        /\ cargs.degrees = 336900 => cresult = "8:12"
        /\ (cargs.degrees <= 0 \/ cargs.degrees >= 90 * U) => cresult = "0:12"


\* the index the claim gives a bearing: round-half-up((deg mod 360) / 22.5) mod 16
HalfUpIndex(deg) == (((deg % (360 * U)) + 112500) \div 225000) % 16

\* C15: degrees_to_cardinal returns the direction of index
\* round-half-up((deg mod 360) / 22.5) mod 16, so that a bearing on a sector
\* boundary goes to the next direction clockwise (11.25 -> NNE, 56.25 -> ENE),
\* [348.75, 360) wraps to N, and deg, deg + 360 and negative deg agree.
C15_CardinalRoundsHalfUp ==
    (pc = "done" /\ cargs.fn = "degrees_to_cardinal") =>
        cresult = dirs[HalfUpIndex(cargs.deg) + 1]


\* float equality (two records can denote the same number)
FEq(x, y) == ~FGt(x, y) /\ ~FGt(y, x)

\* a pitch outside (0, 90) degrees, in 1/PU degree
Degenerate(p) == p <= 0 \/ p >= 90 * PU

\* C16: for a pitch <= 0 or >= 90 degrees, true_area_from_footprint returns
\* the footprint unchanged, and rake_factor and hip_valley_factor return 1.0.
C16_DegeneratePitchIsIdentity ==
    (pc = "done" /\ cargs.fn \in {"true_area_from_footprint", "rake_factor", "hip_valley_factor"}
                 /\ Degenerate(cargs.pitch_degrees)) =>
        /\ fault = "none"
        /\ cargs.fn = "true_area_from_footprint" => FEq(cresult, FInt(cargs.footprint_sqft))
        /\ cargs.fn = "rake_factor" => FEq(cresult, FInt(1))
        /\ cargs.fn = "hip_valley_factor" => FEq(cresult, FInt(1))


\* C17: true_area_from_footprint(f, pitch) > f for every footprint f > 0 and
\* every pitch in (0, 90) degrees, and true_area_from_footprint(f, 0) = f; and
\* every RoofSegment built by parse_solar_segments has true_area_sqft >=
\* footprint_area_sqft, both rounded to integers.
C17_TrueAreaAboveFootprint ==
    /\ (pc = "done" /\ cargs.fn = "true_area_from_footprint") =>
           /\ (cargs.pitch_degrees > 0 /\ cargs.pitch_degrees < 90 * PU) =>
                  FGt(cresult, FInt(cargs.footprint_sqft))
           /\ cargs.pitch_degrees = 0 => FEq(cresult, FInt(cargs.footprint_sqft))
    /\ \A i \in 1..Len(segments) :
           segments[i].true_area_sqft >= segments[i].footprint_area_sqft


\* a pitch in [0, 90) degrees, in 1/PU degree
ValidPitch(p) == p >= 0 /\ p < 90 * PU

\* C18: hip_valley_factor(pitch) >= 1.0 for every pitch in [0, 90) degrees,
\* equals 1.0 at pitch 0, and is strictly increasing in pitch on that range.
C18_HipValleyFactorAtLeastOne ==
    (pc = "done" /\ cargs.fn = "hip_valley_factor" /\ ValidPitch(cargs.pitch_degrees)) =>
        /\ ~FGt(FInt(1), cresult)
        /\ cargs.pitch_degrees = 0 => FEq(cresult, FInt(1))
        /\ \A q \in FloatPitches :
               (ValidPitch(q) /\ q < cargs.pitch_degrees) =>
                   FGt(cresult, hip_valley_factor_float(q))


EdgeTypes == {"ridge", "hip", "valley", "eave", "rake"}

KnownEdges(es) == SelectSeq(es, LAMBDA e : e.edge_type \in EdgeTypes)

\* C19: compute_edge_summary sets each of the five per-type totals to the
\* rounded sum of true_length_ft over the edges of that type and
\* total_linear_ft to the sum of those five rounded totals, for any edge list;
\* an edge of an unknown type contributes to no total.
C19_TotalIsSumOfRoundedTotals ==
    (pc = "done" /\ edge_summary # None) =>
        /\ edge_summary.total_ridge_ft  = RoundDiv(SummedLength(edges, "ridge"), 2)
        /\ edge_summary.total_hip_ft    = RoundDiv(SummedLength(edges, "hip"), 2)
        /\ edge_summary.total_valley_ft = RoundDiv(SummedLength(edges, "valley"), 2)
        /\ edge_summary.total_eave_ft   = RoundDiv(SummedLength(edges, "eave"), 2)
        /\ edge_summary.total_rake_ft   = RoundDiv(SummedLength(edges, "rake"), 2)
        /\ edge_summary.total_linear_ft =
               edge_summary.total_ridge_ft + edge_summary.total_hip_ft
               + edge_summary.total_valley_ft + edge_summary.total_eave_ft
               + edge_summary.total_rake_ft
        /\ edge_summary = compute_edge_summary(KnownEdges(edges))

\* a ridge and a hip of 30.5 ft and an edge of unknown type: 30 + 30 = 60,
\* where the unrounded lengths sum to 61
C19_Witness ==
    /\ pc = "done"
    /\ edge_summary # None
    /\ Len(edges) = 3
    /\ \E i \in 1..Len(edges) : edges[i].edge_type = "flashing"
    /\ SummedLength(edges, "ridge") = 61
    /\ SummedLength(edges, "hip") = 61
    /\ edge_summary.total_ridge_ft = 30
    /\ edge_summary.total_hip_ft = 30
    /\ edge_summary.total_linear_ft = 60


Abs(x) == IF x < 0 THEN -x ELSE x

\* true_length_ft - plan_length_ft * pitch_factor of a stored edge, in 1/2000 ft
\* (lengths are stored in 1/2 ft, pitch_factor in 1/1000)
StoredGap(e) == 1000 * e.true_length_ft - e.plan_length_ft * e.pitch_factor

\* C21 as claimed: every emitted edge satisfies, on its stored fields,
\* true_length_ft = plan_length_ft * pitch_factor.
C21_StoredProductExact ==
    \A i \in 1..Len(edges) : StoredGap(edges[i]) = 0

\* C21 as amended: the three stored fields are rounded separately, so the
\* stored true length equals the stored product only up to that rounding:
\* |true_length_ft - plan_length_ft * pitch_factor| <= 1 + pitch_factor
\* + plan_length_ft / 1000.
C21_StoredProductWithinRounding ==
    \A i \in 1..Len(edges) :
        Abs(StoredGap(edges[i])) <= 2000 + 2 * edges[i].pitch_factor + edges[i].plan_length_ft

\* a hip of plan 25 ft and factor 1.118 whose stored true length is not the product
C21_Witness ==
    /\ Len(segments) >= 4
    /\ \E i \in 1..Len(edges) :
           /\ edges[i].edge_type = "hip"
           /\ edges[i].pitch_factor > 1000
           /\ edges[i].true_length_ft > edges[i].plan_length_ft
           /\ StoredGap(edges[i]) # 0


\* C22: an emitted edge of type ridge or eave has pitch_factor exactly 1.0 and
\* true_length_ft = plan_length_ft; an edge of type hip, valley or rake has
\* pitch_factor >= 1.0.
C22_PitchFactorAtLeastOne ==
    \A i \in 1..Len(edges) :
        /\ edges[i].edge_type \in {"ridge", "eave"} =>
               /\ edges[i].pitch_factor = 1000
               /\ edges[i].true_length_ft = edges[i].plan_length_ft
        /\ edges[i].edge_type \in {"hip", "valley", "rake"} =>
               edges[i].pitch_factor >= 1000

\* a gable roof whose rakes carry a factor above 1.0 beside eaves of factor 1.0
C22_Witness ==
    /\ Len(segments) \in 1..3
    /\ \E i \in 1..Len(edges) :
           edges[i].edge_type = "rake" /\ edges[i].pitch_factor > 1000
    /\ \E i \in 1..Len(edges) :
           edges[i].edge_type = "eave" /\ edges[i].pitch_factor = 1000
                                       /\ edges[i].plan_length_ft > 0


\* C23: gross_area = net_area * (1 + base_waste_pct / 100), gross_squares =
\* gross_area / 100 rounded up to one decimal, bundle_count =
\* ceil(gross_squares * 3); the shingles item (the first line item) carries
\* bundle_count as order_quantity and gross_squares as gross_quantity, and the
\* ordered bundles, 3 per square, cover at least the gross area.
C23_BundlesFromGrossSquares ==
    (pc = "done" /\ materials # None) =>
        /\ materials.gross_squares
               = CeilOf(materials.net_area_sqft * (100 + materials.waste_pct), 1000)
        /\ materials.bundle_count = CeilOf(materials.gross_squares * 3, 10)
        /\ materials.line_items[1].category = "shingles"
        /\ materials.line_items[1].order_quantity = materials.bundle_count
        /\ materials.line_items[1].gross_quantity = materials.gross_squares
        /\ materials.bundle_count * 10000
               >= 3 * materials.net_area_sqft * (100 + materials.waste_pct)


\* the summed area_sqft of the returned RAS segments of one recovery class
RECURSIVE AreaOfClass(_, _)
AreaOfClass(rs, c) ==
    IF rs = <<>> THEN 0
    ELSE (IF Head(rs).recovery_class = c THEN Head(rs).area_sqft ELSE 0)
         + AreaOfClass(Tail(rs), c)

AreaOfAll(rs) ==
    AreaOfClass(rs, "binder_oil") + AreaOfClass(rs, "mixed") + AreaOfClass(rs, "granule")

\* the recommendation the claim gives the exact shares low / total and high / total
ClaimedRecommendation(low, high, total) ==
    IF 100 * low > 60 * total
    THEN "Prioritize binder oil extraction - low-pitch dominant roof."
    ELSE IF 100 * high > 60 * total
    THEN "Prioritize granule separation - steep-pitch dominant roof."
    ELSE "Mixed recovery stream - process through full RAS line."

\* C24: the recommendation is the oil-extraction text when the binder_oil
\* share of the segment area is > 60%, otherwise the granule-separation text
\* when the granule share is > 60%, otherwise the mixed text; a share of
\* exactly 60%, an empty list and a list of zero area select the mixed text.
C24_RecommendationFromShares ==
    (pc = "done" /\ ras_yield # None) =>
        ras_yield.processing_recommendation
            = ClaimedRecommendation(AreaOfClass(ras_yield.segments, "binder_oil"),
                                    AreaOfClass(ras_yield.segments, "granule"),
                                    AreaOfAll(ras_yield.segments))

\* areas 3, 1, 1 with the first segment low-pitch and the others steep: the
\* binder_oil share is exactly 60% and the text is the mixed one
C24_Witness ==
    /\ pc = "done"
    /\ ras_yield # None
    /\ Len(segments) = 3
    /\ AreaOfClass(ras_yield.segments, "binder_oil") = 3
    /\ AreaOfClass(ras_yield.segments, "granule") = 2
    /\ ras_yield.slope_distribution.low_pitch_pct = 600
    /\ ras_yield.processing_recommendation
           = "Mixed recovery stream - process through full RAS line."


\* the steps of analyze that call a core function
CoreCallPcs == {"edges", "edge_summary", "materials", "waste", "ras"}

\* a step of a core function keeps the lists it was handed
ArgumentsKept ==
    pc \in CoreCallPcs => (segments' = segments /\ (pc # "edges" => edges' = edges))

\* C25: generate_edges, compute_edge_summary, compute_material_estimate,
\* generate_waste_table and compute_ras_yield leave the segment list and the
\* edge list they receive unchanged (length, order and every field); each only
\* builds its own result.  (PRICING and WASTE_FACTORS are never assigned and
\* are constants here.)
C25_ArgumentsUnchanged == [][ArgumentsKept]_vars

\* a finished run over four segments: twelve edges went through the summary,
\* the estimate and the yield
C25_Witness ==
    /\ pc = "done"
    /\ Len(segments) = 4
    /\ Len(edges) = 12
    /\ edge_summary # None
    /\ materials # None
    /\ Len(waste_table) = 4
    /\ ras_yield # None


\* the class and waste the claim gives a roof of n segments and pitch
\* variation pv (1/U degrees) when its edges come from generate_edges
PipelineClass(n, pv) ==
    IF n >= 4 THEN <<"very_complex", 15>>
    ELSE IF n = 3 /\ pv > 10 * U THEN <<"moderate", 12>>
    ELSE <<"simple", 10>>

\* C26: when compute_material_estimate is handed the edges generate_edges
\* produced for the same segments, the class "complex" (waste 14%) never
\* occurs: n >= 4 segments give very_complex (15%), n <= 2 give simple (10%),
\* and n = 3 gives moderate (12%) when the pitch variation exceeds 10 degrees
\* and simple otherwise.
C26_PipelineNeverComplex ==
    materials # None =>
        /\ materials.complexity_class # "complex"
        /\ materials.waste_pct \in {10, 12, 15}
        /\ <<materials.complexity_class, materials.waste_pct>>
               = PipelineClass(Len(segments), PitchSpread(segments))

\* three segments with pitches 14.0 and 26.6 degrees: moderate, 12%
C26_Witness ==
    /\ pc = "done"
    /\ Len(segments) = 3
    /\ PitchSpread(segments) = 126000
    /\ materials.complexity_class = "moderate"
    /\ materials.waste_pct = 12


\* C27: every index in the adjacent_segments of an emitted edge is a valid
\* index of the input segment list, 0 <= i < n, for every n >= 1.
C27_AdjacentIndicesValid ==
    \A i \in 1..Len(edges) :
        edges[i].adjacent_segments # None =>
            \A k \in 1..Len(edges[i].adjacent_segments) :
                /\ edges[i].adjacent_segments[k] >= 0
                /\ edges[i].adjacent_segments[k] < Len(segments)


\* the rows of the waste table whose percentage is the estimate's
RowsOfEstimate ==
    {i \in 1..Len(waste_table) : waste_table[i].waste_pct = materials.waste_pct}

\* C28: for the same total true area, when the estimate's waste percentage is
\* 10 or 15, its bundle_count is at least the bundles of the waste-table row
\* of that percentage and exceeds it by at most 1.
C28_BundlesWithinOneOfTable ==
    (materials # None /\ waste_table # <<>> /\ materials.waste_pct \in {10, 15}) =>
        /\ RowsOfEstimate # {}
        /\ \A i \in RowsOfEstimate :
               /\ materials.bundle_count >= waste_table[i].bundles
               /\ materials.bundle_count <= waste_table[i].bundles + 1

\* a run whose estimate orders one bundle more than the table's row
C28_Witness ==
    /\ pc = "done"
    /\ materials.waste_pct = 10
    /\ materials.net_area_sqft > 0
    /\ \E i \in RowsOfEstimate :
           materials.bundle_count = waste_table[i].bundles + 1


\* C29: compute_ras_yield returns 0 <= recovery_rate_pct <= 100 for every
\* true_area_sqft >= 0 it is given, also one smaller than the sum of the
\* segments' true areas and the value 0 with segments of positive area
\* (recovery_rate_pct is held in 1/10 percent).
C29_RecoveryRateBoundedForAnyArea ==
    (pc = "done" /\ ras_yield # None) =>
        (ras_yield.recovery_rate_pct >= 0 /\ ras_yield.recovery_rate_pct <= 1000)


\* the batch the claim describes: the non-blank lines not starting with '#',
\* stripped, in file order
ClaimedBatch(lines) ==
    LET kept == SelectSeq(lines, LAMBDA l : Strip(l) # <<>> /\ ~(l # <<>> /\ l[1] = "#"))
    IN  [k \in 1..Len(kept) |-> Strip(kept[k])]

\* the extensions of the files written for the k-th address
FilesOf(k) == {cresult.files[j][3] : j \in {j \in 1..Len(cresult.files) : cresult.files[j][1] = k}}

\* the files the k-th address may have after raising at a stage
FilesAfterError(stage) == IF stage = "batch_json" THEN {"html"} ELSE {}

\* main so far: the addresses attempted are the first ones of the batch, each
\* once and in file order, all of them once main has returned; an address
\* that raised has one ERROR line and no file written after it; no exception
\* has left main
BatchOrderly ==
    /\ fault = "none"
    /\ pc # "crashed"
    /\ cresult # None =>
           /\ Len(cresult.attempted) <= Len(ClaimedBatch(cargs.lines))
           /\ cresult.attempted
                  = SubSeq(ClaimedBatch(cargs.lines), 1, Len(cresult.attempted))
           /\ pc = "batch_done" => cresult.attempted = ClaimedBatch(cargs.lines)
           /\ \A e \in 1..Len(cresult.errors) :
                  /\ FilesOf(cresult.errors[e][1]) = FilesAfterError(cresult.errors[e][2])
                  /\ \A d \in 1..Len(cresult.errors) :
                         cresult.errors[d][1] = cresult.errors[e][1] => d = e

\* C30: in batch mode main attempts every address of the batch file (the
\* non-blank lines not starting with '#') exactly once and in file order; an
\* exception raised while analysing or saving one address is caught, that
\* address gets no further output file, and the loop goes on, so that main
\* always reaches the end of the list and returns normally.
C30_BatchAttemptsEveryAddress ==
    /\ []BatchOrderly
    /\ (pc = "batch_start" /\ cargs.exists) ~> (pc = "batch_done")

\* three addresses, the second failed in analyze, the first and the third
\* have both their files
C30_Witness ==
    /\ pc = "batch_done"
    /\ Len(cresult.attempted) = 3
    /\ cresult.errors = << <<2, "batch_analyze">> >>
    /\ FilesOf(1) = {"html", "json"}
    /\ FilesOf(2) = {}
    /\ FilesOf(3) = {"html", "json"}

=============================================================================
